---- MODULE Spec2Model ----
(***************************************************************************)
(* archguardian: the analysis pipeline (core/pipeline.ts, utils/           *)
(* performance.ts) and the duplicate detector (analyzers/                  *)
(* duplicate-detector.ts), as state machines.                              *)
(*                                                                         *)
(* Strings that the code formats, concatenates or compares are sequences   *)
(* of one-character strings, so that a key built by a template literal is  *)
(* the concatenation the code builds.  A rule identifier may hold one      *)
(* multi-character atom (a word without ':' or '|').                       *)
(***************************************************************************)
EXTENDS Integers, Sequences, FiniteSets, TLC

VARIABLES
    context,           \* AnalysisContext: files, parsedFiles, config
    analyzers,         \* the Analyzer[] handed to runPipeline (names)
    pc,                \* position of runPipeline / of the detector
    enabledAnalyzers,  \* pipeline.ts:13
    tasks,             \* per launched analyzer: the promise of analyze()
    timers,            \* per launched analyzer: the timer of withTimeout
    results,           \* per launched analyzer: the settled runAnalyzer promise
    clock,             \* performance.now(), in ms
    summary,           \* the AnalysisSummary runPipeline resolves with
    dup,               \* the duplicate detector's locals
    jac,               \* jaccardSimilarity's arguments and result
    exit,              \* getExitCode's arguments and result
    cache              \* the LlmCache, its module counter and the cache file

vars == <<context, analyzers, pc, enabledAnalyzers, tasks, timers, results,
          clock, summary, dup, jac, exit, cache>>

(***************************************************************************)
(* Bounds of the model.                                                    *)
(***************************************************************************)
MaxAnalyzers == 2
MaxTokens == 3

(***************************************************************************)
(* Program constants.                                                      *)
(***************************************************************************)
ANALYZER_TIMEOUT_MS == 5000
MIN_BLOCK_LINES == 5

None == "none"

(***************************************************************************)
(* Strings.                                                                *)
(***************************************************************************)
Digits == <<"0", "1", "2", "3", "4", "5", "6", "7", "8", "9">>

RECURSIVE NumToStr(_)
\* String(n) for a non-negative integer: its decimal digits.
NumToStr(n) ==
    IF n < 10 THEN <<Digits[n + 1]>>
    ELSE NumToStr(n \div 10) \o <<Digits[(n % 10) + 1]>>

Range(s) == {s[i] : i \in DOMAIN s}

RECURSIVE SeqsUpTo(_, _)
SeqsUpTo(S, n) ==
    IF n = 0 THEN {<<>>}
    ELSE LET shorter == SeqsUpTo(S, n - 1)
         IN shorter \cup {Append(s, x) : s \in {t \in shorter : Len(t) = n - 1}, x \in S}

RECURSIVE FlatMap(_, _)
FlatMap(seq, i) ==
    IF i > Len(seq) THEN <<>> ELSE seq[i].findings \o FlatMap(seq, i + 1)

(***************************************************************************)
(* pipeline.ts                                                             *)
(***************************************************************************)
Severities == {"error", "warning", "info"}

\* The findings the modelled analyzers draw from.  F1 and F2 differ in rule
\* and file; F2 and F3 share rule, file and line and differ in severity.
F1 == [ruleId |-> <<"r", ":", "x">>, file |-> <<"y">>, line |-> 1, severity |-> "error"]
F2 == [ruleId |-> <<"r">>, file |-> <<"x", ":", "y">>, line |-> 1, severity |-> "warning"]
F3 == [ruleId |-> <<"r">>, file |-> <<"x", ":", "y">>, line |-> 1, severity |-> "info"]

ReturnedLists == {<<>>, <<F1>>, <<F2>>, <<F3, F2>>}

\* How long the synchronous part of an analyze() call computes, in ms.
SyncDurations == {0, 7500}

AnalyzerNames == {"security", "plugin"}

\* What an analyzer's analyze() does: return a findings list, throw, or
\* (at launch) stay pending on something it awaits.
SettledOutcomes ==
    {[kind |-> "throw", value |-> <<>>]} \cup {[kind |-> "return", value |-> l] : l \in ReturnedLists}

LaunchOutcomes == {[kind |-> "pending", value |-> <<>>]} \cup SettledOutcomes

\* The time at which the analyzer's own work is done, if the event loop is
\* free to resume it.  io is how long what a pending analyze() awaits takes,
\* in ms, from the end of its synchronous part; -1 stands for something that
\* may take any time or never complete, and gives no bound (-1).
ReadyAt(now, dur, outcome, io) ==
    IF outcome.kind # "pending" THEN now + dur
    ELSE IF io = -1 THEN -1
    ELSE now + dur + io

TaskState(outcome) ==
    CASE outcome.kind = "pending" -> "pending"
      [] outcome.kind = "throw" -> "rejected"
      [] OTHER -> "fulfilled"

DefaultAnalyzersConfig ==
    [security |-> [enabled |-> TRUE], aiSmells |-> [enabled |-> TRUE],
     conventions |-> [enabled |-> TRUE], duplicates |-> [enabled |-> TRUE],
     architecture |-> [enabled |-> TRUE]]

\* A plausible slip: the analyzer's name taken for its configuration key.
isAnalyzerEnabledByConfigKey(name, ctx) ==
    LET config == ctx.config.analyzers
    IN CASE name = "security" -> config.security.enabled
         [] name = "aiSmells" -> config.aiSmells.enabled
         [] name = "conventions" -> config.conventions.enabled
         [] name = "duplicates" -> config.duplicates.enabled
         [] name = "architecture" -> config.architecture.enabled
         [] OTHER -> TRUE

\* pipeline.ts:64-74
isAnalyzerEnabled(name, ctx) ==
    LET config == ctx.config.analyzers
    IN CASE name = "security" -> config.security.enabled
         [] name = "ai-smells" -> config.aiSmells.enabled
         [] name = "conventions" -> config.conventions.enabled
         [] name = "duplicates" -> config.duplicates.enabled
         [] name = "architecture" -> config.architecture.enabled
         [] OTHER -> TRUE

\* pipeline.ts:79
FindingKey(f) == f.ruleId \o <<":">> \o f.file \o <<":">> \o NumToStr(f.line)

RECURSIVE DedupFrom(_, _, _)
DedupFrom(findings, i, seen) ==
    IF i > Len(findings) THEN <<>>
    ELSE LET key == FindingKey(findings[i])
         IN IF key \in seen THEN DedupFrom(findings, i + 1, seen)
            ELSE <<findings[i]>> \o DedupFrom(findings, i + 1, seen \cup {key})

\* pipeline.ts:76-84
deduplicateFindings(findings) == DedupFrom(findings, 1, {})

CountSeverity(findings, sev) ==
    Cardinality({i \in DOMAIN findings : findings[i].severity = sev})

\* pipeline.ts:23-35: the AnalyzerResult of the settled promise at idx
AnalyzerResultAt(res, enabled, idx) ==
    IF res[idx].status = "fulfilled" THEN res[idx].value
    ELSE [analyzer |-> enabled[idx], findings |-> <<>>, duration |-> 0,
          error |-> res[idx].reason]

\* A plausible slip: the per-analyzer lists are deduplicated too.
SummarizeDeduplicatingResults(ctx, res, enabled) ==
    LET raw == [idx \in DOMAIN res |-> AnalyzerResultAt(res, enabled, idx)]
        analyzerResults ==
            [idx \in DOMAIN raw |-> [raw[idx] EXCEPT !.findings = deduplicateFindings(raw[idx].findings)]]
        allFindings == deduplicateFindings(FlatMap(analyzerResults, 1))
    IN [totalFiles |-> Len(ctx.files),
        totalFindings |-> Len(allFindings),
        errors |-> CountSeverity(allFindings, "error"),
        warnings |-> CountSeverity(allFindings, "warning"),
        infos |-> CountSeverity(allFindings, "info"),
        analyzerResults |-> analyzerResults]

\* A plausible slip: the severities are counted before deduplication.
SummarizeCountingRawFindings(ctx, res, enabled) ==
    LET analyzerResults == [idx \in DOMAIN res |-> AnalyzerResultAt(res, enabled, idx)]
        rawFindings == FlatMap(analyzerResults, 1)
        allFindings == deduplicateFindings(rawFindings)
    IN [totalFiles |-> Len(ctx.files),
        totalFindings |-> Len(allFindings),
        errors |-> CountSeverity(rawFindings, "error"),
        warnings |-> CountSeverity(rawFindings, "warning"),
        infos |-> CountSeverity(rawFindings, "info"),
        analyzerResults |-> analyzerResults]

\* pipeline.ts:23-48
Summarize(ctx, res, enabled) ==
    LET analyzerResults == [idx \in DOMAIN res |-> AnalyzerResultAt(res, enabled, idx)]
        allFindings == deduplicateFindings(FlatMap(analyzerResults, 1))
    IN [totalFiles |-> Len(ctx.files),
        totalFindings |-> Len(allFindings),
        errors |-> CountSeverity(allFindings, "error"),
        warnings |-> CountSeverity(allFindings, "warning"),
        infos |-> CountSeverity(allFindings, "info"),
        analyzerResults |-> analyzerResults]

Launched == Len(tasks)

\* A plausible slip: results collected in completion order, not by index.
StoreResultInCompletionOrder(res, i, r) ==
    LET slot == CHOOSE k \in DOMAIN res :
                    res[k].status = "pending" /\ \A j \in DOMAIN res : res[j].status = "pending" => k <= j
    IN [res EXCEPT ![slot] = r]

\* Promise.allSettled keeps each promise's outcome at the promise's index
\* (pipeline.ts:17-24).
StoreResult(res, i, r) == [res EXCEPT ![i] = r]

\* The race of withTimeout for analyzer i is undecided as long as its timer
\* is armed: the timer is cleared or has fired once the race has settled.
RacePending(i) == timers[i].state = "armed"

\* A promise reaction is queued: some launched task has settled and its
\* race (withTimeout) has not.
MicrotaskPending ==
    \E i \in DOMAIN tasks : tasks[i].state # "pending" /\ RacePending(i)

\* pipeline.ts:13
Start ==
    /\ pc = "start"
    /\ enabledAnalyzers' = SelectSeq(analyzers, LAMBDA a : isAnalyzerEnabled(a, context))
    /\ pc' = "map"
    /\ UNCHANGED <<exit, cache, context, analyzers, tasks, timers, results, clock, summary, dup, jac>>

\* pipeline.ts:18-20, 51-58 and performance.ts withTimeout: runAnalyzer is
\* called for the next enabled analyzer.  analyze() runs synchronously up to
\* its first await (taking dur ms), then withTimeout arms the timer.
LaunchTask(io, durations, outcomes) ==
    /\ pc = "map"
    /\ Launched < Len(enabledAnalyzers)
    /\ \E dur \in durations, outcome \in outcomes :
        /\ io # -1 => outcome.kind = "pending"
        /\ clock' = clock + dur
        /\ tasks' = Append(tasks,
              [state |-> TaskState(outcome),
               value |-> outcome.value,
               launched |-> clock,
               settledAt |-> IF outcome.kind = "pending" THEN -1 ELSE clock + dur,
               readyAt |-> ReadyAt(clock, dur, outcome, io)])
        /\ timers' = Append(timers, [state |-> "armed", deadline |-> clock + dur + ANALYZER_TIMEOUT_MS])
        /\ results' = Append(results, [status |-> "pending"])
    /\ UNCHANGED <<exit, cache, context, analyzers, pc, enabledAnalyzers, summary, dup, jac>>

Launch == LaunchTask(-1, SyncDurations, LaunchOutcomes)

\* The launched analyzer awaits an I/O operation that takes 100 ms.
LaunchAwaiting == LaunchTask(100, SyncDurations, LaunchOutcomes)

\* The launched analyzer returns one finding at once.
LaunchReturning == LaunchTask(-1, {0}, {[kind |-> "return", value |-> <<F1>>]})

\* pipeline.ts:18-20: the synchronous part of the next analyzer's analyze()
\* never ends (a loop that does not terminate).  The call does not return,
\* so withTimeout is not entered and nothing else runs on the thread.
LaunchDiverges ==
    /\ pc = "map"
    /\ Launched < Len(enabledAnalyzers)
    /\ pc' = "analyze"
    /\ UNCHANGED <<exit, cache, context, analyzers, enabledAnalyzers, tasks, timers, results,
                   clock, summary, dup, jac>>

\* pipeline.ts:17: the map is done, runPipeline awaits Promise.allSettled.
Await ==
    /\ pc = "map"
    /\ Launched = Len(enabledAnalyzers)
    /\ pc' = "await"
    /\ UNCHANGED <<exit, cache, context, analyzers, enabledAnalyzers, tasks, timers, results, clock, summary, dup, jac>>

\* A plausible slip: a failed analyzer is reported as an empty success.
SettledByTaskSwallowingErrors(i, now) ==
    [status |-> "fulfilled",
     value |-> [analyzer |-> enabledAnalyzers[i], findings |-> tasks[i].value,
                duration |-> now - tasks[i].launched]]

\* The runAnalyzer promise of analyzer i once the race of withTimeout has
\* settled with the task's outcome (pipeline.ts:52-61).
SettledByTask(i, now) ==
    IF tasks[i].state = "fulfilled"
    THEN [status |-> "fulfilled",
          value |-> [analyzer |-> enabledAnalyzers[i], findings |-> tasks[i].value,
                     duration |-> now - tasks[i].launched]]
    ELSE [status |-> "rejected", reason |-> "Error: boom"]

\* A plausible slip: withTimeout without its finally clearTimeout.
RaceSettleWithoutClearTimeout ==
    /\ pc = "await"
    /\ \E i \in DOMAIN tasks :
          /\ tasks[i].state # "pending"
          /\ results[i].status = "pending"
          /\ results' = StoreResult(results, i, SettledByTask(i, clock))
    /\ UNCHANGED <<exit, cache, context, analyzers, pc, enabledAnalyzers, tasks, timers, clock,
                   summary, dup, jac>>

\* performance.ts withTimeout: Promise.race settles with the task's outcome;
\* finally clearTimeout.  A microtask: it runs before any timer or I/O event.
RaceSettle ==
    /\ pc = "await"
    /\ MicrotaskPending
    /\ LET i == CHOOSE k \in DOMAIN tasks :
                   /\ tasks[k].state # "pending" /\ RacePending(k)
                   /\ \A j \in DOMAIN tasks :
                        (tasks[j].state # "pending" /\ RacePending(j)) => k <= j
       IN /\ results' = StoreResult(results, i, SettledByTask(i, clock))
          /\ timers' = [timers EXCEPT ![i].state = "cleared"]
    /\ UNCHANGED <<exit, cache, context, analyzers, pc, enabledAnalyzers, tasks, clock, summary, dup, jac>>

\* performance.ts withTimeout: the timer's callback rejects the race.
TimerFire(i) ==
    /\ pc = "await"
    /\ ~MicrotaskPending
    /\ timers[i].state = "armed"
    /\ clock >= timers[i].deadline
    /\ timers' = [timers EXCEPT ![i].state = "fired"]
    /\ results' = StoreResult(results, i,
          [status |-> "rejected", reason |-> "Error: timed out after 5000ms"])
    /\ UNCHANGED <<exit, cache, context, analyzers, pc, enabledAnalyzers, tasks, clock, summary, dup, jac>>

\* An analyzer that awaited something is resumed by the event loop and
\* returns or throws.  Its continuation may run after the race is lost, and
\* after runPipeline has returned.
TaskSettle(i) ==
    /\ pc \in {"await", "done"}
    /\ ~MicrotaskPending
    /\ tasks[i].state = "pending"
    /\ tasks[i].readyAt = -1 \/ clock >= tasks[i].readyAt
    /\ \E outcome \in SettledOutcomes :
        tasks' = [tasks EXCEPT ![i] =
              [state |-> TaskState(outcome),
               value |-> outcome.value,
               launched |-> tasks[i].launched,
               settledAt |-> clock,
               readyAt |-> IF tasks[i].readyAt = -1 THEN clock ELSE tasks[i].readyAt]]
    /\ UNCHANGED <<exit, cache, context, analyzers, pc, enabledAnalyzers, timers, results, clock, summary, dup, jac>>

ArmedDeadlines == {timers[i].deadline : i \in {j \in DOMAIN timers : timers[j].state = "armed"}}

\* The times at which the I/O awaited by a pending analyzer completes.
ReadyTimes ==
    {tasks[i].readyAt : i \in {j \in DOMAIN tasks : /\ tasks[j].state = "pending"
                                                    /\ tasks[j].readyAt # -1}}

\* Time passes while the event loop is idle (no microtask is queued, no armed
\* timer is due, no awaited I/O is complete), up to the moment the next timer
\* is due or the next awaited I/O completes.
Tick ==
    /\ pc = "await"
    /\ ~MicrotaskPending
    /\ ArmedDeadlines # {}
    /\ \A d \in ArmedDeadlines \cup ReadyTimes : clock < d
    /\ clock' = CHOOSE d \in ArmedDeadlines \cup ReadyTimes :
                    \A e \in ArmedDeadlines \cup ReadyTimes : d <= e
    /\ UNCHANGED <<exit, cache, context, analyzers, pc, enabledAnalyzers, tasks, timers, results, summary, dup, jac>>

\* A plausible slip: the run ends with the first analyzer that settles
\* (Promise.race or Promise.any in place of Promise.allSettled).
JoinOnFirstSettled ==
    /\ pc = "await"
    /\ \E i \in DOMAIN results : results[i].status # "pending"
    /\ summary' = Summarize(context,
                            SelectSeq(results, LAMBDA r : r.status # "pending"),
                            enabledAnalyzers)
    /\ pc' = "done"
    /\ UNCHANGED <<exit, cache, context, analyzers, enabledAnalyzers, tasks, timers, results, clock, dup, jac>>

\* pipeline.ts:17-49: allSettled resolves once every promise has settled.
Join ==
    /\ pc = "await"
    /\ \A i \in DOMAIN results : results[i].status # "pending"
    /\ pc' = "done"
    /\ summary' = Summarize(context, results, enabledAnalyzers)
    /\ UNCHANGED <<exit, cache, context, analyzers, enabledAnalyzers, tasks, timers, results, clock, dup, jac>>

PipelineContexts ==
    {[files |-> <<>>, parsedFiles |-> <<>>,
      config |-> [analyzers |-> [DefaultAnalyzersConfig EXCEPT !.security.enabled = b]]] :
        b \in BOOLEAN}

Init ==
    /\ context \in PipelineContexts
    /\ analyzers \in SeqsUpTo(AnalyzerNames, MaxAnalyzers)
    /\ pc = "start"
    /\ enabledAnalyzers = <<>>
    /\ tasks = <<>>
    /\ timers = <<>>
    /\ results = <<>>
    /\ clock = 0
    /\ exit = None
    /\ cache = None
    /\ summary = None
    /\ dup = None
    /\ jac = None

Next ==
    \/ Start
    \/ Launch
    \/ Await
    \/ RaceSettle
    \/ \E i \in DOMAIN timers : TimerFire(i)
    \/ \E i \in DOMAIN tasks : TaskSettle(i)
    \/ Tick
    \/ Join

Spec == Init /\ [][Next]_vars

\* The pipeline with analyzers that await short I/O operations, or whose
\* synchronous part does not terminate, as well.
NextAsync == Next \/ LaunchAwaiting \/ LaunchDiverges

SpecAsync == Init /\ [][NextAsync]_vars

\* The thread runs the next call of the map (which returns or not, as the
\* analyzer decides), and the event loop runs every callback that is ready:
\* the steps of runPipeline, the promise reactions, the timers that are due and the
\* continuations whose awaited I/O is complete.  An analyzer that awaits
\* something unbounded need never be resumed.
ReadySettle(i) == TaskSettle(i) /\ tasks[i].readyAt # -1

\* The variables a step of runPipeline or of the event loop changes.
sched == <<pc, enabledAnalyzers, tasks, timers, results, clock>>

Fairness ==
    /\ WF_sched(Start)
    /\ WF_sched(Launch \/ LaunchAwaiting \/ LaunchDiverges)
    /\ WF_sched(Await)
    /\ WF_sched(RaceSettle)
    /\ WF_sched(Tick)
    /\ WF_sched(Join)
    /\ \A i \in 1..MaxAnalyzers : WF_sched(i \in DOMAIN timers /\ TimerFire(i))
    /\ \A i \in 1..MaxAnalyzers : WF_sched(i \in DOMAIN tasks /\ ReadySettle(i))

SpecLive == Init /\ [][NextAsync]_vars /\ Fairness

(***************************************************************************)
(* Claims about runPipeline.                                               *)
(***************************************************************************)
HasError(r) == "error" \in DOMAIN r

\* The analyzers runPipeline has to run, read off its arguments.
ExpectedEnabled ==
    SelectSeq(analyzers,
              LAMBDA a : ~(a = "security" /\ ~context.config.analyzers.security.enabled))

\* Analyzer i's analyze() returned and its timer had not fired.
Succeeded(i) == tasks[i].state = "fulfilled" /\ timers[i].state # "fired"

Triple(f) == <<f.ruleId, f.file, f.line>>

\* C1: whatever subset of the analyzers throws, the summary has one entry
\* per enabled analyzer in list order; a throwing analyzer's entry has an
\* error and no findings; an analyzer that returned (and was not timed out)
\* has exactly the findings it returned.
C1_FailuresAreIsolated ==
    pc = "done" =>
        LET ar == summary.analyzerResults
        IN /\ Len(ar) = Len(ExpectedEnabled)
           /\ \A i \in DOMAIN ar :
                /\ ar[i].analyzer = ExpectedEnabled[i]
                /\ tasks[i].state = "rejected" => HasError(ar[i]) /\ ar[i].findings = <<>>
                /\ Succeeded(i) => ~HasError(ar[i]) /\ ar[i].findings = tasks[i].value

C1_Witness ==
    /\ pc = "done"
    /\ \E i, j \in DOMAIN summary.analyzerResults :
        /\ tasks[i].state = "rejected" /\ timers[i].state = "cleared"
        /\ HasError(summary.analyzerResults[i])
        /\ Succeeded(j) /\ summary.analyzerResults[j].findings # <<>>

\* C2 (as claimed): an analyzer whose analyze() has not completed within
\* 5000 ms of its launch is reported with an error and no findings.
C2_LateAnalyzerIsAnError ==
    pc = "done" =>
        \A i \in DOMAIN summary.analyzerResults :
            (tasks[i].settledAt = -1 \/ tasks[i].settledAt > tasks[i].launched + ANALYZER_TIMEOUT_MS)
                => /\ HasError(summary.analyzerResults[i])
                   /\ summary.analyzerResults[i].findings = <<>>

AllResultFindings ==
    UNION {Range(summary.analyzerResults[i].findings) : i \in DOMAIN summary.analyzerResults}

\* C3 (as claimed): totalFindings is the number of distinct
\* (ruleId, file, line) triples among the findings of all AnalyzerResults.
C3_TotalCountsDistinctTriples ==
    pc = "done" =>
        summary.totalFindings = Cardinality({Triple(f) : f \in AllResultFindings})

\* The findings of the analyzers in list order, as the analyzers returned
\* them: nothing from an analyzer that failed or timed out.
ReturnedInListOrder ==
    LET R[i \in 0..Len(tasks)] ==
            IF i = 0 THEN <<>>
            ELSE R[i - 1] \o (IF Succeeded(i) THEN tasks[i].value ELSE <<>>)
    IN R[Len(tasks)]

\* Of the findings with f's triple, the one reached first when the analyzers
\* are read in list order.
FirstInListOrder(f) ==
    LET ar == summary.analyzerResults
        has(i) == \E j \in DOMAIN ar[i].findings : Triple(ar[i].findings[j]) = Triple(f)
        i0 == CHOOSE i \in DOMAIN ar : has(i) /\ \A k \in DOMAIN ar : has(k) => i <= k
        j0 == CHOOSE j \in DOMAIN ar[i0].findings :
                /\ Triple(ar[i0].findings[j]) = Triple(f)
                /\ \A k \in DOMAIN ar[i0].findings : Triple(ar[i0].findings[k]) = Triple(f) => j <= k
    IN ar[i0].findings[j0]

\* C4: a finding kept by deduplication is the first one with its triple in
\* analyzer-list order, and the counts are those of the analyzers' returned
\* lists read in list order, whatever order the tasks completed in.
C4_ListOrderDecides ==
    pc = "done" =>
        LET kept == deduplicateFindings(FlatMap(summary.analyzerResults, 1))
            expected == deduplicateFindings(ReturnedInListOrder)
        IN /\ \A k \in DOMAIN kept : kept[k] = FirstInListOrder(kept[k])
           /\ summary.totalFindings = Len(expected)
           /\ summary.errors = CountSeverity(expected, "error")
           /\ summary.warnings = CountSeverity(expected, "warning")
           /\ summary.infos = CountSeverity(expected, "info")

\* Two analyzers returned the same triple with different severities, and the
\* later one in the list completed first.
C4_Witness ==
    /\ pc = "done"
    /\ \E i, j \in DOMAIN tasks :
        /\ i < j /\ Succeeded(i) /\ Succeeded(j)
        /\ tasks[j].settledAt < tasks[i].settledAt
        /\ \E f \in Range(tasks[i].value), g \in Range(tasks[j].value) :
              Triple(f) = Triple(g) /\ f.severity # g.severity
        /\ summary.totalFindings = 1

\* C5: aggregation leaves each successful analyzer's findings list as the
\* analyzer returned it, duplicates included.
C5_ResultsAreNotDeduplicated ==
    pc = "done" =>
        \A i \in DOMAIN summary.analyzerResults :
            Succeeded(i) => summary.analyzerResults[i].findings = tasks[i].value

\* An analyzer's own list holds more findings than the summary counts.
C5_Witness ==
    /\ pc = "done"
    /\ \E i \in DOMAIN summary.analyzerResults :
        /\ Succeeded(i)
        /\ summary.totalFindings < Len(summary.analyzerResults[i].findings)

(***************************************************************************)
(* duplicate-detector.ts: jaccardSimilarity                                *)
(*                                                                         *)
(* The result of the division is kept as the exact fraction                *)
(* intersection / union.  The operands are small integers, so the double   *)
(* the code computes compares with another such quotient, or with a        *)
(* threshold of a few decimals, as the fractions do.                       *)
(***************************************************************************)
Frac(n, d) == [num |-> n, den |-> d]
FracEq(x, y) == x.num * y.den = y.num * x.den

Min2(x, y) == IF x <= y THEN x ELSE y
Max2(x, y) == IF x >= y THEN x ELSE y

EmptyBag == [t \in {} |-> 0]

\* A plausible slip: a set of tokens instead of a bag.
toBagAsSet(tokens) == [t \in Range(tokens) |-> 1]

\* duplicate-detector.ts:337-343
toBag(tokens) ==
    LET B[i \in 0..Len(tokens)] ==
            IF i = 0 THEN EmptyBag
            ELSE LET t == tokens[i]
                     bag == B[i - 1]
                 IN IF t \in DOMAIN bag THEN [bag EXCEPT ![t] = @ + 1]
                    ELSE bag @@ (t :> 1)
    IN B[Len(tokens)]

BagGet(bag, key) == IF key \in DOMAIN bag THEN bag[key] ELSE 0

RECURSIVE SumOverKeys(_, _, _)
\* duplicate-detector.ts:320-329: the loop over allKeys, accumulating
\* <<intersection, union>>
SumOverKeys(keys, bagA, bagB) ==
    IF keys = {} THEN <<0, 0>>
    ELSE LET key == CHOOSE k \in keys : TRUE
             countA == BagGet(bagA, key)
             countB == BagGet(bagB, key)
             rest == SumOverKeys(keys \ {key}, bagA, bagB)
         IN <<rest[1] + Min2(countA, countB), rest[2] + Max2(countA, countB)>>

\* A containment measure in place of the Jaccard index: the shared tokens
\* over the size of the first sequence.
jaccardSimilarityOverFirst(a, b) ==
    IF Len(a) = 0 /\ Len(b) = 0 THEN Frac(1, 1)
    ELSE IF Len(a) = 0 \/ Len(b) = 0 THEN Frac(0, 1)
    ELSE LET bagA == toBag(a)
             bagB == toBag(b)
             sums == SumOverKeys(DOMAIN bagA \cup DOMAIN bagB, bagA, bagB)
         IN Frac(sums[1], Len(a))

\* duplicate-detector.ts:313-332
jaccardSimilarity(a, b) ==
    IF Len(a) = 0 /\ Len(b) = 0 THEN Frac(1, 1)
    ELSE IF Len(a) = 0 \/ Len(b) = 0 THEN Frac(0, 1)
    ELSE LET bagA == toBag(a)
             bagB == toBag(b)
             allKeys == DOMAIN bagA \cup DOMAIN bagB
             sums == SumOverKeys(allKeys, bagA, bagB)
             intersection == sums[1]
             union == sums[2]
         IN IF union = 0 THEN Frac(0, 1) ELSE Frac(intersection, union)

Tokens == {"a", "b", "c"}

\* A call of jaccardSimilarity(a, b) on two token sequences.
JaccardCall ==
    /\ pc = "jaccard"
    /\ jac.state = "called"
    /\ jac' = [jac EXCEPT !.state = "returned", !.result = jaccardSimilarity(jac.a, jac.b)]
    /\ UNCHANGED <<exit, cache, context, analyzers, pc, enabledAnalyzers, tasks, timers, results, clock, summary, dup>>

EmptyContext ==
    [files |-> <<>>, parsedFiles |-> <<>>, config |-> [analyzers |-> DefaultAnalyzersConfig]]

InitJaccard ==
    /\ jac \in {[a |-> a, b |-> b, state |-> "called", result |-> Frac(0, 1)] :
                 a \in SeqsUpTo(Tokens, MaxTokens), b \in SeqsUpTo(Tokens, MaxTokens)}
    /\ pc = "jaccard"
    /\ context = EmptyContext
    /\ analyzers = <<>>
    /\ enabledAnalyzers = <<>>
    /\ tasks = <<>>
    /\ timers = <<>>
    /\ results = <<>>
    /\ clock = 0
    /\ exit = None
    /\ cache = None
    /\ summary = None
    /\ dup = None

NextJaccard == JaccardCall

SpecJaccard == InitJaccard /\ [][NextJaccard]_vars

(***************************************************************************)
(* Claims about jaccardSimilarity.                                         *)
(***************************************************************************)
Occurrences(s, t) == Cardinality({i \in DOMAIN s : s[i] = t})

RECURSIVE SumMin(_, _, _)
SumMin(S, a, b) ==
    IF S = {} THEN 0
    ELSE LET t == CHOOSE y \in S : TRUE
         IN (IF Occurrences(a, t) <= Occurrences(b, t) THEN Occurrences(a, t) ELSE Occurrences(b, t))
              + SumMin(S \ {t}, a, b)

RECURSIVE SumMax(_, _, _)
SumMax(S, a, b) ==
    IF S = {} THEN 0
    ELSE LET t == CHOOSE y \in S : TRUE
         IN (IF Occurrences(a, t) >= Occurrences(b, t) THEN Occurrences(a, t) ELSE Occurrences(b, t))
              + SumMax(S \ {t}, a, b)

\* The multiset measure of two token sequences.
MultisetMeasure(a, b) ==
    LET distinct == Range(a) \cup Range(b)
    IN IF a = <<>> /\ b = <<>> THEN Frac(1, 1)
       ELSE IF a = <<>> \/ b = <<>> THEN Frac(0, 1)
       ELSE Frac(SumMin(distinct, a, b), SumMax(distinct, a, b))

\* C10: jaccardSimilarity is the multiset measure: 1 for two empty
\* sequences, 0 when exactly one is empty, otherwise sum of min counts over
\* sum of max counts; identical sequences give 1, disjoint ones 0, and
\* a,a,b against a,b,b gives 2/4.
C10_JaccardIsMultisetMeasure ==
    (pc = "jaccard" /\ jac.state = "returned") =>
        /\ jac.result.den > 0
        /\ FracEq(jac.result, MultisetMeasure(jac.a, jac.b))
        /\ jac.a = jac.b => FracEq(jac.result, Frac(1, 1))
        /\ (jac.a # <<>> /\ jac.b # <<>> /\ Range(jac.a) \cap Range(jac.b) = {})
              => FracEq(jac.result, Frac(0, 1))
        /\ (jac.a = <<"a", "a", "b">> /\ jac.b = <<"a", "b", "b">>)
              => jac.result = Frac(2, 4)

C10_Witness ==
    /\ pc = "jaccard"
    /\ jac.state = "returned"
    /\ jac.a = <<"a", "a", "b">>
    /\ jac.b = <<"a", "b", "b">>
    /\ jac.result = Frac(2, 4)

(***************************************************************************)
(* duplicate-detector.ts: node kinds, as the strings the code compares.    *)
(***************************************************************************)
K_function_declaration ==
    <<"f", "u", "n", "c", "t", "i", "o", "n", "_", "d", "e", "c", "l", "a",
      "r", "a", "t", "i", "o", "n">>
K_method_definition ==
    <<"m", "e", "t", "h", "o", "d", "_", "d", "e", "f", "i", "n", "i", "t",
      "i", "o", "n">>
K_arrow_function == <<"a", "r", "r", "o", "w", "_", "f", "u", "n", "c", "t", "i", "o", "n">>
K_if_statement == <<"i", "f", "_", "s", "t", "a", "t", "e", "m", "e", "n", "t">>
K_for_statement == <<"f", "o", "r", "_", "s", "t", "a", "t", "e", "m", "e", "n", "t">>
K_for_in_statement ==
    <<"f", "o", "r", "_", "i", "n", "_", "s", "t", "a", "t", "e", "m", "e",
      "n", "t">>
K_while_statement ==
    <<"w", "h", "i", "l", "e", "_", "s", "t", "a", "t", "e", "m", "e", "n",
      "t">>
K_switch_statement ==
    <<"s", "w", "i", "t", "c", "h", "_", "s", "t", "a", "t", "e", "m", "e",
      "n", "t">>
K_try_statement == <<"t", "r", "y", "_", "s", "t", "a", "t", "e", "m", "e", "n", "t">>
K_class_declaration ==
    <<"c", "l", "a", "s", "s", "_", "d", "e", "c", "l", "a", "r", "a", "t",
      "i", "o", "n">>
K_identifier == <<"i", "d", "e", "n", "t", "i", "f", "i", "e", "r">>
K_property_identifier ==
    <<"p", "r", "o", "p", "e", "r", "t", "y", "_", "i", "d", "e", "n", "t",
      "i", "f", "i", "e", "r">>
K_shorthand_property_identifier ==
    <<"s", "h", "o", "r", "t", "h", "a", "n", "d", "_", "p", "r", "o", "p",
      "e", "r", "t", "y", "_", "i", "d", "e", "n", "t", "i", "f", "i", "e",
      "r">>
K_shorthand_property_identifier_pattern ==
    <<"s", "h", "o", "r", "t", "h", "a", "n", "d", "_", "p", "r", "o", "p",
      "e", "r", "t", "y", "_", "i", "d", "e", "n", "t", "i", "f", "i", "e",
      "r", "_", "p", "a", "t", "t", "e", "r", "n">>
K_type_identifier ==
    <<"t", "y", "p", "e", "_", "i", "d", "e", "n", "t", "i", "f", "i", "e",
      "r">>
K_string == <<"s", "t", "r", "i", "n", "g">>
K_string_fragment ==
    <<"s", "t", "r", "i", "n", "g", "_", "f", "r", "a", "g", "m", "e", "n",
      "t">>
K_template_string ==
    <<"t", "e", "m", "p", "l", "a", "t", "e", "_", "s", "t", "r", "i", "n",
      "g">>
K_number == <<"n", "u", "m", "b", "e", "r">>
K_true == <<"t", "r", "u", "e">>
K_false == <<"f", "a", "l", "s", "e">>
K_null == <<"n", "u", "l", "l">>
K_undefined == <<"u", "n", "d", "e", "f", "i", "n", "e", "d">>
K_regex == <<"r", "e", "g", "e", "x">>
K_program == <<"p", "r", "o", "g", "r", "a", "m">>
K_formal_parameters ==
    <<"f", "o", "r", "m", "a", "l", "_", "p", "a", "r", "a", "m", "e", "t",
      "e", "r", "s">>
K_statement_block ==
    <<"s", "t", "a", "t", "e", "m", "e", "n", "t", "_", "b", "l", "o", "c",
      "k">>
K_return_statement ==
    <<"r", "e", "t", "u", "r", "n", "_", "s", "t", "a", "t", "e", "m", "e",
      "n", "t">>
K_empty_statement ==
    <<"e", "m", "p", "t", "y", "_", "s", "t", "a", "t", "e", "m", "e", "n",
      "t">>
K_function == <<"f", "u", "n", "c", "t", "i", "o", "n">>
K_comment == <<"c", "o", "m", "m", "e", "n", "t">>
K_return == <<"r", "e", "t", "u", "r", "n">>

\* duplicate-detector.ts:17-28
BLOCK_NODE_TYPES ==
    {K_function_declaration,
     K_method_definition,
     K_arrow_function,
     K_if_statement,
     K_for_statement,
     K_for_in_statement,
     K_while_statement,
     K_switch_statement,
     K_try_statement,
     K_class_declaration}

\* duplicate-detector.ts:35-41
IDENTIFIER_NODE_TYPES ==
    {K_identifier,
     K_property_identifier,
     K_shorthand_property_identifier,
     K_shorthand_property_identifier_pattern,
     K_type_identifier}

\* duplicate-detector.ts:43-53
LITERAL_NODE_TYPES ==
    {K_string,
     K_string_fragment,
     K_template_string,
     K_number,
     K_true,
     K_false,
     K_null,
     K_undefined,
     K_regex}

\* String.prototype.charCodeAt for the characters the model's strings use.
CharCode ==
    " " :> 32 @@ "!" :> 33 @@ "#" :> 35 @@ "$" :> 36 @@ "%" :> 37 @@
    "&" :> 38 @@ "'" :> 39 @@ "(" :> 40 @@ ")" :> 41 @@ "*" :> 42 @@
    "+" :> 43 @@ "," :> 44 @@ "-" :> 45 @@ "." :> 46 @@ "/" :> 47 @@
    "0" :> 48 @@ "1" :> 49 @@ "2" :> 50 @@ "3" :> 51 @@ "4" :> 52 @@
    "5" :> 53 @@ "6" :> 54 @@ "7" :> 55 @@ "8" :> 56 @@ "9" :> 57 @@
    ":" :> 58 @@ ";" :> 59 @@ "<" :> 60 @@ "=" :> 61 @@ ">" :> 62 @@
    "?" :> 63 @@ "@" :> 64 @@ "A" :> 65 @@ "B" :> 66 @@ "C" :> 67 @@
    "D" :> 68 @@ "E" :> 69 @@ "F" :> 70 @@ "G" :> 71 @@ "H" :> 72 @@
    "I" :> 73 @@ "J" :> 74 @@ "K" :> 75 @@ "L" :> 76 @@ "M" :> 77 @@
    "N" :> 78 @@ "O" :> 79 @@ "P" :> 80 @@ "Q" :> 81 @@ "R" :> 82 @@
    "S" :> 83 @@ "T" :> 84 @@ "U" :> 85 @@ "V" :> 86 @@ "W" :> 87 @@
    "X" :> 88 @@ "Y" :> 89 @@ "Z" :> 90 @@ "[" :> 91 @@ "]" :> 93 @@
    "^" :> 94 @@ "_" :> 95 @@ "a" :> 97 @@ "b" :> 98 @@
    "c" :> 99 @@ "d" :> 100 @@ "e" :> 101 @@ "f" :> 102 @@ "g" :> 103 @@
    "h" :> 104 @@ "i" :> 105 @@ "j" :> 106 @@ "k" :> 107 @@ "l" :> 108 @@
    "m" :> 109 @@ "n" :> 110 @@ "o" :> 111 @@ "p" :> 112 @@ "q" :> 113 @@
    "r" :> 114 @@ "s" :> 115 @@ "t" :> 116 @@ "u" :> 117 @@ "v" :> 118 @@
    "w" :> 119 @@ "x" :> 120 @@ "y" :> 121 @@ "z" :> 122 @@ "{" :> 123 @@
    "|" :> 124 @@ "}" :> 125 @@ "~" :> 126

(***************************************************************************)
(* Parsed trees.  A node has a kind, a range of rows (0-based, as          *)
(* node.range() gives them), children, and for a leaf its source text.     *)
(***************************************************************************)
Leaf(kind, text, row) ==
    [kind |-> kind, start |-> row, end |-> row, text |-> text, children |-> <<>>]

\* An anonymous token (keyword, operator, punctuation): its kind is its text.
Tok(text, row) == Leaf(text, text, row)

Inner(kind, start, end, children) ==
    [kind |-> kind, start |-> start, end |-> end, text |-> <<>>, children |-> children]

\* A node of a malformed tree: reading its text raises.
Malformed(node) == [raises |-> TRUE] @@ node

TextRaises(node) == "raises" \in DOMAIN node

RECURSIVE JoinWith(_, _)
\* Array.prototype.join
JoinWith(parts, sep) ==
    IF Len(parts) = 0 THEN <<>>
    ELSE IF Len(parts) = 1 THEN parts[1]
    ELSE parts[1] \o sep \o JoinWith(Tail(parts), sep)

RECURSIVE Concat(_)
Concat(seqs) == IF Len(seqs) = 0 THEN <<>> ELSE seqs[1] \o Concat(Tail(seqs))

RECURSIVE NodeText(_)
\* node.text(): the source text of the node; between two tokens, one space.
NodeText(node) ==
    IF Len(node.children) = 0 THEN node.text
    ELSE JoinWith([i \in DOMAIN node.children |-> NodeText(node.children[i])], <<" ">>)

RECURSIVE Walk(_)
\* ast-utils.ts:3-8: the nodes in the order walk() calls back on them
Walk(node) ==
    <<node>> \o Concat([i \in DOMAIN node.children |-> Walk(node.children[i])])

\* ast-utils.ts:10-19
findNodes(tree, types) == SelectSeq(Walk(tree), LAMBDA n : n.kind \in types)

ID_PLACEHOLDER == <<"$", "I", "D">>
LIT_PLACEHOLDER == <<"$", "L", "I", "T">>

RECURSIVE normalizeNodeKeepingNames(_)
\* A plausible slip: identifiers keep their names.
normalizeNodeKeepingNames(node) ==
    IF node.kind \in LITERAL_NODE_TYPES THEN LIT_PLACEHOLDER
    ELSE IF Len(node.children) = 0 THEN node.text
    ELSE <<"(">> \o node.kind \o <<" ">>
           \o JoinWith([i \in DOMAIN node.children |->
                           normalizeNodeKeepingNames(node.children[i])], <<" ">>)
           \o <<")">>

RECURSIVE normalizeNode(_)
\* duplicate-detector.ts:243-264
normalizeNode(node) ==
    IF node.kind \in IDENTIFIER_NODE_TYPES THEN ID_PLACEHOLDER
    ELSE IF node.kind \in LITERAL_NODE_TYPES THEN LIT_PLACEHOLDER
    ELSE IF Len(node.children) = 0 THEN node.text
    ELSE <<"(">> \o node.kind \o <<" ">>
           \o JoinWith([i \in DOMAIN node.children |-> normalizeNode(node.children[i])], <<" ">>)
           \o <<")">>

\* A 32-bit integer is kept as its two 16-bit halves <<high, low>>, so that
\* no intermediate value needs more than 32 bits.
Half == 65536

\* duplicate-detector.ts:273: ((hash << 5) + hash + c) | 0
HashStep(h, c) ==
    LET low == h[2] * 33 + c
        high == h[1] * 33 + (low \div Half)
    IN <<high % Half, low % Half>>

\* x | 0: the signed value of the 32 bits
ToInt32(h) == IF h[1] >= Half \div 2 THEN (h[1] - Half) * Half + h[2] ELSE h[1] * Half + h[2]

Base36Digits ==
    <<"0", "1", "2", "3", "4", "5", "6", "7", "8", "9", "a", "b", "c", "d", "e", "f", "g", "h",
      "i", "j", "k", "l", "m", "n", "o", "p", "q", "r", "s", "t", "u", "v", "w", "x", "y", "z">>

RECURSIVE NatToBase36(_)
NatToBase36(n) ==
    IF n < 36 THEN <<Base36Digits[n + 1]>>
    ELSE NatToBase36(n \div 36) \o <<Base36Digits[(n % 36) + 1]>>

\* Number.prototype.toString(36)
ToBase36(v) ==
    IF v >= 0 THEN NatToBase36(v)
    ELSE LET last == (36 - (v % 36)) % 36
             rest == -((v + last) \div 36)
         IN <<"-">> \o (IF rest = 0 THEN <<>> ELSE NatToBase36(rest)) \o <<Base36Digits[last + 1]>>

\* duplicate-detector.ts:270-276 (djb2).  Loop[hash, from, to] is the loop of
\* lines 272-274 over input[from..to], entered with the given hash; the range
\* is walked as two halves, one after the other.
simpleHash(input) ==
    LET Loop[hash \in (0..(Half - 1)) \X (0..(Half - 1)), from \in Nat, to \in Nat] ==
            IF from > to THEN hash
            ELSE IF from = to THEN HashStep(hash, CharCode[input[from]])
            ELSE LET mid == (from + to) \div 2
                 IN Loop[Loop[hash, from, mid], mid + 1, to]
    IN ToBase36(ToInt32(Loop[<<5381 \div Half, 5381 % Half>>, 1, Len(input)]))

\* duplicate-detector.ts:232-235
hashNode(node) == simpleHash(normalizeNode(node))

\* duplicate-detector.ts:289-301: the token of one visited node
TokenOf(n) ==
    IF n.kind \in IDENTIFIER_NODE_TYPES THEN ID_PLACEHOLDER
    ELSE IF n.kind \in LITERAL_NODE_TYPES THEN LIT_PLACEHOLDER
    ELSE IF Len(n.children) = 0 THEN n.text
    ELSE n.kind

\* duplicate-detector.ts:286-304
tokenizeNode(node) == LET visited == Walk(node) IN [i \in DOMAIN visited |-> TokenOf(visited[i])]

\* A plausible slip: the overlap test is skipped.
overlapsAnything(startLine, endLine, changedLines) == TRUE

\* duplicate-detector.ts:218-223
overlapsChangedLines(startLine, endLine, changedLines) ==
    \E line \in startLine..endLine : line \in changedLines

\* A plausible slip: the span is taken as endLine - startLine.
lineCountOffByOne(startLine, endLine) == endLine - startLine + 2

\* duplicate-detector.ts:188
lineCountOf(startLine, endLine) == endLine - startLine + 1

\* duplicate-detector.ts:186-208: the CodeBlock of a node that passed the filters
BlockOf(file, node) ==
    [hash |-> hashNode(node),
     tokens |-> tokenizeNode(node),
     filePath |-> file.path,
     startLine |-> node.start + 1,
     endLine |-> node.end + 1,
     snippet |-> NodeText(node),
     nodeType |-> node.kind]

\* duplicate-detector.ts:181-212
extractBlocks(file, changedLines) ==
    LET nodes == findNodes(file.tree, BLOCK_NODE_TYPES)
        kept == SelectSeq(nodes, LAMBDA node :
                    LET startLine == node.start + 1
                        endLine == node.end + 1
                    IN /\ ~(lineCountOf(startLine, endLine) < MIN_BLOCK_LINES)
                       /\ overlapsChangedLines(startLine, endLine, changedLines))
    IN [i \in DOMAIN kept |-> BlockOf(file, kept[i])]

\* duplicate-detector.ts:192 and 257: building the block of a candidate reads
\* the text of the candidate and of its leaves that are neither identifiers
\* nor literals.
BlockRaises(node) ==
    \/ TextRaises(node)
    \/ \E n \in Range(Walk(node)) :
          /\ TextRaises(n)
          /\ Len(n.children) = 0
          /\ n.kind \notin IDENTIFIER_NODE_TYPES \cup LITERAL_NODE_TYPES

\* duplicate-detector.ts:185-208: extractBlocks has no handler, so it raises
\* if building the block of any candidate it keeps raises.
extractBlocksRaises(file, changedLines) ==
    \E node \in Range(findNodes(file.tree, BLOCK_NODE_TYPES)) :
        /\ ~(lineCountOf(node.start + 1, node.end + 1) < MIN_BLOCK_LINES)
        /\ overlapsChangedLines(node.start + 1, node.end + 1, changedLines)
        /\ BlockRaises(node)

\* base-analyzer.ts:8-12
getChangedLines(ctx, filePath) ==
    LET matching == {i \in DOMAIN ctx.files : ctx.files[i].path = filePath}
    IN IF matching = {} THEN {}
       ELSE LET file == ctx.files[CHOOSE i \in matching : \A j \in matching : i <= j]
            IN {file.addedLines[k].lineNumber : k \in DOMAIN file.addedLines}

RECURSIVE StrLess(_, _)
\* a < b on strings: by UTF-16 code units
StrLess(a, b) ==
    IF Len(b) = 0 THEN FALSE
    ELSE IF Len(a) = 0 THEN TRUE
    ELSE IF CharCode[a[1]] < CharCode[b[1]] THEN TRUE
    ELSE IF CharCode[a[1]] > CharCode[b[1]] THEN FALSE
    ELSE StrLess(Tail(a), Tail(b))

\* duplicate-detector.ts:350-354
pairKey(a, b) ==
    LET ka == a.filePath \o <<":">> \o NumToStr(a.startLine)
        kb == b.filePath \o <<":">> \o NumToStr(b.startLine)
    IN IF StrLess(ka, kb) THEN ka \o <<"|">> \o kb ELSE kb \o <<"|">> \o ka

\* duplicate-detector.ts:98-106: the Map, as its entries in insertion order
GroupByHash(allBlocks) ==
    LET M[n \in 0..Len(allBlocks)] ==
            IF n = 0 THEN <<>>
            ELSE LET block == allBlocks[n]
                     prev == M[n - 1]
                     at == {k \in DOMAIN prev : prev[k].hash = block.hash}
                 IN IF at # {}
                    THEN [prev EXCEPT ![CHOOSE k \in at : TRUE].blocks = Append(@, block)]
                    ELSE Append(prev, [hash |-> block.hash, blocks |-> <<block>>])
    IN M[Len(allBlocks)]

\* The index pairs <<i, j>>, i < j <= n, in the order of the nested loops
\* (duplicate-detector.ts:112-113 and 139-140).
LoopPairs(n) ==
    LET row(i) == [d \in 1..(n - i) |-> <<i, i + d>>]
    IN Concat([i \in 1..n |-> row(i)])

Slice(s, n) == IF Len(s) <= n THEN s ELSE SubSeq(s, 1, n)

\* base-analyzer.ts:18-34 with the options the detector passes
\* (duplicate-detector.ts:120-131 and 156-167)
createFinding(ruleId, a, b, similarityPct) ==
    [ruleId |-> ruleId,
     analyzer |-> "duplicates",
     severity |-> "warning",
     message |-> [nodeType |-> a.nodeType, startLine |-> a.startLine, endLine |-> a.endLine,
                  otherFile |-> b.filePath, otherStart |-> b.startLine, otherEnd |-> b.endLine,
                  similarity |-> similarityPct],
     file |-> a.filePath,
     line |-> a.startLine,
     endLine |-> a.endLine,
     codeSnippet |-> Slice(a.snippet, 200)]

STRUCTURAL_CLONE == <<"duplicate/structural-clone">>
SIMILAR_BLOCK == <<"duplicate/similar-block">>

RECURSIVE StructuralFold(_, _, _)
\* duplicate-detector.ts:114-131 over the given pairs of blocks, from the
\* state <<reportedStructural, findings>>
StructuralFold(pairs, reported, findings) ==
    IF Len(pairs) = 0 THEN <<reported, findings>>
    ELSE LET a == pairs[1][1]
             b == pairs[1][2]
             key == pairKey(a, b)
         IN IF key \in reported THEN StructuralFold(Tail(pairs), reported, findings)
            ELSE StructuralFold(Tail(pairs), reported \cup {key},
                                Append(findings, createFinding(STRUCTURAL_CLONE, a, b, -1)))

\* duplicate-detector.ts:110-113: the pairs of blocks the loops visit
StructuralPairs(hashMap) ==
    Concat([k \in DOMAIN hashMap |->
              LET blocks == hashMap[k].blocks
                  pairs == LoopPairs(Len(blocks))
              IN [p \in DOMAIN pairs |-> <<blocks[pairs[p][1]], blocks[pairs[p][2]]>>]])

\* (jaccardSim * 100).toFixed(0)
Percent(x) == (200 * x.num + x.den) \div (2 * x.den)

FracGeq(x, y) == x.num * y.den >= y.num * x.den

\* A plausible slip: phase B does not look at the pairs phase A reported.
alreadyReportedIgnoringStructural(key, reportedStructural, reportedSimilar) ==
    key \in reportedSimilar

\* duplicate-detector.ts:146-147
alreadyReported(key, reportedStructural, reportedSimilar) ==
    key \in reportedStructural \/ key \in reportedSimilar

RECURSIVE SimilarFold(_, _, _, _, _)
\* duplicate-detector.ts:141-168 over the given pairs of blocks
SimilarFold(pairs, similarity, reportedStructural, reportedSimilar, findings) ==
    IF Len(pairs) = 0 THEN <<reportedSimilar, findings>>
    ELSE LET a == pairs[1][1]
             b == pairs[1][2]
             key == pairKey(a, b)
             rest == Tail(pairs)
         IN IF alreadyReported(key, reportedStructural, reportedSimilar)
            THEN SimilarFold(rest, similarity, reportedStructural, reportedSimilar, findings)
            ELSE IF a.filePath = b.filePath /\ a.startLine = b.startLine
            THEN SimilarFold(rest, similarity, reportedStructural, reportedSimilar, findings)
            ELSE LET jaccardSim == jaccardSimilarity(a.tokens, b.tokens)
                 IN IF FracGeq(jaccardSim, similarity)
                    THEN SimilarFold(rest, similarity, reportedStructural,
                                     reportedSimilar \cup {key},
                                     Append(findings,
                                            createFinding(SIMILAR_BLOCK, a, b, Percent(jaccardSim))))
                    ELSE SimilarFold(rest, similarity, reportedStructural, reportedSimilar, findings)

\* duplicate-detector.ts:139-142
AllPairs(allBlocks) ==
    LET pairs == LoopPairs(Len(allBlocks))
    IN [p \in DOMAIN pairs |-> <<allBlocks[pairs[p][1]], allBlocks[pairs[p][2]]>>]

\* duplicate-detector.ts:85: context.config.analyzers.duplicates.similarity ?? 0.85
SimilarityOf(ctx) ==
    LET s == ctx.config.analyzers.duplicates.similarity
    IN IF s.defined THEN s.value ELSE Frac(85, 100)

(***************************************************************************)
(* Source files the detector is run on.  Each is the tree the parser       *)
(* gives for a small program; S(...) spells a token.                       *)
(***************************************************************************)
\* The node of a literal: a quoted text is a string node around the quotes
\* and a string_fragment, any other text a number leaf.
Literal(lit, row) ==
    IF Head(lit) = "'"
    THEN Inner(K_string, row, row,
               <<Tok(<<"'">>, row),
                 Leaf(K_string_fragment, SubSeq(lit, 2, Len(lit) - 1), row),
                 Tok(<<"'">>, row)>>)
    ELSE Leaf(K_number, lit, row)

ReturnStatement(lit, row) ==
    Inner(K_return_statement, row, row,
          <<Tok(K_return, row), Literal(lit, row), Tok(<<";">>, row)>>)

Body(first, last, statements) ==
    Inner(K_statement_block, first, last,
          <<Tok(<<"{">>, first)>> \o statements \o <<Tok(<<"}">>, last)>>)

\* function <name>() {          (rows first .. last)
\*
\*   return <lit>;
\* }
FunctionDeclaration(name, lit, first, last, extra) ==
    Inner(K_function_declaration, first, last,
          <<Tok(K_function, first),
            Leaf(K_identifier, name, first),
            Inner(K_formal_parameters, first, first, <<Tok(<<"(">>, first), Tok(<<")">>, first)>>),
            Body(first, last, <<ReturnStatement(lit, first + 2)>> \o extra)>>)

\* <outer> => <inner> => {      (rows first .. last, both arrows)
\*
\*   return <lit>;
\* }
CurriedArrow(outer, inner, lit, first, last) ==
    Inner(K_arrow_function, first, last,
          <<Leaf(K_identifier, outer, first),
            Tok(<<"=", ">">>, first),
            Inner(K_arrow_function, first, last,
                  <<Leaf(K_identifier, inner, first),
                    Tok(<<"=", ">">>, first),
                    Body(first, last, <<ReturnStatement(lit, first + 2)>>)>>)>>)

Program(last, nodes) == Inner(K_program, 0, last, nodes)

\* two functions of six lines that differ in names and literals only
ProgramClones ==
    Program(11, <<FunctionDeclaration(<<"f">>, <<"1">>, 0, 5, <<>>),
                  FunctionDeclaration(<<"g">>, <<"2">>, 6, 11, <<>>)>>)

\* one function of six lines with one more (empty) statement
ProgramSimilar ==
    Program(5, <<FunctionDeclaration(<<"h">>, <<"3">>, 0, 5,
                    <<Inner(K_empty_statement, 3, 3, <<Tok(<<";">>, 3)>>)>>)>>)

\* two functions of four lines that differ in names and literals only
ProgramShort ==
    Program(7, <<FunctionDeclaration(<<"p">>, <<"4">>, 0, 3, <<>>),
                  FunctionDeclaration(<<"q">>, <<"5">>, 4, 7, <<>>)>>)

\* one curried arrow function: two nested blocks that start on one line
ProgramCurried ==
    Program(5, <<CurriedArrow(<<"s">>, <<"n">>, <<"6">>, 0, 5)>>)

Programs == {ProgramClones, ProgramSimilar, ProgramShort, ProgramCurried}

MaxFiles == 2

PathNames == <<<<"a">>, <<"b">>, <<"c">>, <<"d">>>>

\* parsedFiles has one entry per path (context.ts builds it from the changed
\* files), and may be empty; the paths come in either order.
PathLists(n) == {[i \in 1..n |-> PathNames[i]], [i \in 1..n |-> PathNames[n + 1 - i]]}

\* What the diff says of one parsed file: nothing (no entry in
\* context.files), or the numbers of its added lines.
NoEntry == [present |-> FALSE, addedLines |-> <<>>]
DiffOptions ==
    {NoEntry} \cup {[present |-> TRUE, addedLines |-> l] :
                      l \in {<<>>, <<[lineNumber |-> 3]>>,
                             <<[lineNumber |-> 3], [lineNumber |-> 9]>>}}

\* duplicates.similarity: left out, or a number in [0, 1] (config schema)
SimilarityOptions == {[defined |-> FALSE, value |-> Frac(0, 1)], [defined |-> TRUE, value |-> Frac(0, 1)]}

DupContext(paths, trees, diffs, similarity) ==
    LET n == Len(paths)
        present == SelectSeq([i \in 1..n |-> i], LAMBDA i : diffs[i].present)
    IN [files |-> [k \in DOMAIN present |->
                      [path |-> paths[present[k]], addedLines |-> diffs[present[k]].addedLines]],
        parsedFiles |-> [i \in 1..n |-> [path |-> paths[i], tree |-> trees[i]]],
        config |-> [analyzers |->
                      [DefaultAnalyzersConfig EXCEPT
                         !.duplicates = [enabled |-> TRUE, severity |-> "warning",
                                         similarity |-> similarity]]]]

\* duplicate-detector.ts:83-173: the findings analyze returns for a context
\* whose trees are well formed
analyze(ctx) ==
    LET allBlocks ==
            Concat([i \in DOMAIN ctx.parsedFiles |->
                       extractBlocks(ctx.parsedFiles[i],
                                     getChangedLines(ctx, ctx.parsedFiles[i].path))])
        hashMap == GroupByHash(allBlocks)
        structural == StructuralFold(StructuralPairs(hashMap), {}, <<>>)
        similar == SimilarFold(AllPairs(allBlocks), SimilarityOf(ctx), structural[1], {},
                               structural[2])
    IN similar[2]

\* duplicate-detector.ts:84-89: the locals of analyze
DupLocals ==
    [allBlocks |-> <<>>, file |-> 1, hashMap |-> <<>>, reportedStructural |-> {},
     reportedSimilar |-> {}, findings |-> <<>>]

\* A plausible slip: the loop takes the files off the context's list.
DupExtractConsumingFiles ==
    /\ pc = "dup_extract"
    /\ context.parsedFiles # <<>>
    /\ LET file == Head(context.parsedFiles)
           changedLines == getChangedLines(context, file.path)
           blocks == extractBlocks(file, changedLines)
       IN /\ dup' = [dup EXCEPT !.allBlocks = @ \o blocks]
          /\ context' = [context EXCEPT !.parsedFiles = Tail(@)]
    /\ UNCHANGED <<exit, cache, analyzers, pc, enabledAnalyzers, tasks, timers, results, clock, summary, jac>>

\* duplicate-detector.ts:91-95: one turn of the loop over the parsed files
DupExtract ==
    /\ pc = "dup_extract"
    /\ dup.file <= Len(context.parsedFiles)
    /\ ~extractBlocksRaises(context.parsedFiles[dup.file],
                            getChangedLines(context, context.parsedFiles[dup.file].path))
    /\ LET file == context.parsedFiles[dup.file]
           changedLines == getChangedLines(context, file.path)
           blocks == extractBlocks(file, changedLines)
       IN dup' = [dup EXCEPT !.allBlocks = @ \o blocks, !.file = @ + 1]
    /\ UNCHANGED <<exit, cache, context, analyzers, pc, enabledAnalyzers, tasks, timers, results, clock,
                   summary, jac>>

\* duplicate-detector.ts:98-106
DupGroup ==
    /\ pc = "dup_extract"
    /\ dup.file > Len(context.parsedFiles)
    /\ dup' = [dup EXCEPT !.hashMap = GroupByHash(dup.allBlocks)]
    /\ pc' = "dup_structural"
    /\ UNCHANGED <<exit, cache, context, analyzers, enabledAnalyzers, tasks, timers, results, clock,
                   summary, jac>>

\* duplicate-detector.ts:109-134
DupStructural ==
    /\ pc = "dup_structural"
    /\ LET after == StructuralFold(StructuralPairs(dup.hashMap), dup.reportedStructural,
                                   dup.findings)
       IN dup' = [dup EXCEPT !.reportedStructural = after[1], !.findings = after[2]]
    /\ pc' = "dup_similar"
    /\ UNCHANGED <<exit, cache, context, analyzers, enabledAnalyzers, tasks, timers, results, clock,
                   summary, jac>>

\* duplicate-detector.ts:138-172
DupSimilar ==
    /\ pc = "dup_similar"
    /\ LET after == SimilarFold(AllPairs(dup.allBlocks), SimilarityOf(context),
                                dup.reportedStructural, dup.reportedSimilar, dup.findings)
       IN dup' = [dup EXCEPT !.reportedSimilar = after[1], !.findings = after[2]]
    /\ pc' = "dup_done"
    /\ UNCHANGED <<exit, cache, context, analyzers, enabledAnalyzers, tasks, timers, results, clock,
                   summary, jac>>

\* A plausible slip: a run that extracted no block is reported as a failure.
DupSettleFailingOnNoBlocks ==
    /\ pc = "dup_done"
    /\ results' = IF dup.allBlocks = <<>>
                  THEN <<[status |-> "rejected", reason |-> "Error: no blocks"]>>
                  ELSE <<[status |-> "fulfilled",
                          value |-> [analyzer |-> enabledAnalyzers[1],
                                     findings |-> dup.findings, duration |-> 0]]>>
    /\ summary' = Summarize(context, results', enabledAnalyzers)
    /\ pc' = "dup_summarized"
    /\ UNCHANGED <<exit, cache, context, analyzers, enabledAnalyzers, tasks, timers, clock, dup, jac>>

\* pipeline.ts:17-48 with the detector as the one enabled analyzer: analyze
\* has returned without awaiting anything, so the race of withTimeout settles
\* with its findings and runPipeline builds the summary.
DupSettle ==
    /\ pc = "dup_done"
    /\ results' = <<[status |-> "fulfilled",
                     value |-> [analyzer |-> enabledAnalyzers[1], findings |-> dup.findings,
                                duration |-> 0]]>>
    /\ summary' = Summarize(context, results', enabledAnalyzers)
    /\ pc' = "dup_summarized"
    /\ UNCHANGED <<exit, cache, context, analyzers, enabledAnalyzers, tasks, timers, clock, dup, jac>>

InitDup ==
    /\ \E n \in 0..MaxFiles :
          \E paths \in PathLists(n), trees \in [1..n -> Programs],
             diffs \in [1..n -> DiffOptions], similarity \in SimilarityOptions :
              context = DupContext(paths, trees, diffs, similarity)
    /\ pc = "dup_extract"
    /\ dup = DupLocals
    /\ analyzers = <<"duplicates">>
    /\ enabledAnalyzers = SelectSeq(analyzers, LAMBDA a : isAnalyzerEnabled(a, context))
    /\ tasks = <<>>
    /\ timers = <<>>
    /\ results = <<>>
    /\ clock = 0
    /\ exit = None
    /\ cache = None
    /\ summary = None
    /\ jac = None

NextDup == DupExtract \/ DupGroup \/ DupStructural \/ DupSimilar \/ DupSettle

SpecDup == InitDup /\ [][NextDup]_vars

(***************************************************************************)
(* The detector on unusual inputs: comments, a malformed tree, and each    *)
(* configured severity.                                                    *)
(***************************************************************************)
Comment(text, row) == Leaf(K_comment, <<"/", "/">> \o text, row)

\* two functions of six lines that differ in names, literals and the text
\* of a comment
ProgramComments ==
    Program(11, <<FunctionDeclaration(<<"f">>, <<"1">>, 0, 5, <<Comment(<<"a", "b">>, 3)>>),
                  FunctionDeclaration(<<"g">>, <<"2">>, 6, 11, <<Comment(<<"b", "A">>, 9)>>)>>)

\* two clone functions of six lines, and a third whose node is malformed
ProgramMalformed ==
    Program(17, <<FunctionDeclaration(<<"f">>, <<"1">>, 0, 5, <<>>),
                  FunctionDeclaration(<<"g">>, <<"2">>, 6, 11, <<>>),
                  Malformed(FunctionDeclaration(<<"h">>, <<"3">>, 12, 17, <<>>))>>)

EdgePrograms == {ProgramClones, ProgramComments, ProgramMalformed}

\* every function of the programs above has a changed line
EdgeDiff ==
    [present |-> TRUE,
     addedLines |-> <<[lineNumber |-> 3], [lineNumber |-> 9], [lineNumber |-> 15]>>]

\* duplicate-detector.ts:91-95: extractBlocks raises, and so does analyze
DupThrow ==
    /\ pc = "dup_extract"
    /\ dup.file <= Len(context.parsedFiles)
    /\ extractBlocksRaises(context.parsedFiles[dup.file],
                           getChangedLines(context, context.parsedFiles[dup.file].path))
    /\ pc' = "dup_threw"
    /\ UNCHANGED <<exit, cache, context, analyzers, enabledAnalyzers, tasks, timers, results, clock,
                   summary, dup, jac>>

\* pipeline.ts:17-48 with the detector as the one enabled analyzer: analyze
\* has raised, so the race of withTimeout rejects and runPipeline builds the
\* summary from the rejection.
DupReject ==
    /\ pc = "dup_threw"
    /\ results' = <<[status |-> "rejected", reason |-> "Error: malformed node"]>>
    /\ summary' = Summarize(context, results', enabledAnalyzers)
    /\ pc' = "dup_summarized"
    /\ UNCHANGED <<exit, cache, context, analyzers, enabledAnalyzers, tasks, timers, clock, dup, jac>>

InitDupEdge ==
    /\ \E n \in 1..MaxFiles :
          \E paths \in PathLists(n), trees \in [1..n -> EdgePrograms], severity \in Severities :
              context =
                  [DupContext(paths, trees, [i \in 1..n |-> EdgeDiff],
                              [defined |-> FALSE, value |-> Frac(0, 1)])
                     EXCEPT !.config.analyzers.duplicates.severity = severity]
    /\ pc = "dup_extract"
    /\ dup = DupLocals
    /\ analyzers = <<"duplicates">>
    /\ enabledAnalyzers = SelectSeq(analyzers, LAMBDA a : isAnalyzerEnabled(a, context))
    /\ tasks = <<>>
    /\ timers = <<>>
    /\ results = <<>>
    /\ clock = 0
    /\ exit = None
    /\ cache = None
    /\ summary = None
    /\ jac = None

NextDupEdge == NextDup \/ DupThrow \/ DupReject

SpecDupEdge == InitDupEdge /\ [][NextDupEdge]_vars

(***************************************************************************)
(* The structural signature of two blocks, and their grouping.             *)
(***************************************************************************)
Names == {<<"f">>, <<"g", "2">>}
Literals == {<<"1">>, <<"4", "2">>, <<"'", "a", "'">>}
FirstRows == {0, 6}

\* nothing, an empty statement, or a second return
ExtraStatements(lit, row) ==
    {<<>>, <<Inner(K_empty_statement, row, row, <<Tok(<<";">>, row)>>)>>,
     <<ReturnStatement(lit, row)>>}

\* functions of six lines
SignatureBlocks ==
    UNION {{FunctionDeclaration(name, lit, first, first + 5, extra) :
              extra \in ExtraStatements(lit, first + 3)} :
           name \in Names, lit \in Literals, first \in FirstRows}

\* duplicate-detector.ts:186-208 and 98-106: the blocks of the two nodes are
\* built and grouped by their hash.
SignatureGroup ==
    /\ pc = "signature"
    /\ dup.state = "built"
    /\ LET blockA == BlockOf([path |-> PathNames[1]], dup.a)
           blockB == BlockOf([path |-> PathNames[2]], dup.b)
       IN dup' = [dup EXCEPT !.hashMap = GroupByHash(<<blockA, blockB>>), !.state = "grouped"]
    /\ UNCHANGED <<exit, cache, context, analyzers, pc, enabledAnalyzers, tasks, timers, results, clock,
                   summary, jac>>

InitSignature ==
    /\ \E a, b \in SignatureBlocks :
          dup = [a |-> a, b |-> b, hashMap |-> <<>>, state |-> "built"]
    /\ pc = "signature"
    /\ context = EmptyContext
    /\ analyzers = <<>>
    /\ enabledAnalyzers = <<>>
    /\ tasks = <<>>
    /\ timers = <<>>
    /\ results = <<>>
    /\ clock = 0
    /\ exit = None
    /\ cache = None
    /\ summary = None
    /\ jac = None

NextSignature == SignatureGroup

SpecSignature == InitSignature /\ [][NextSignature]_vars

(***************************************************************************)
(* runPipeline with any analyzers, or with the detector as its analyzer.   *)
(***************************************************************************)
InitRun == Init \/ InitDup \/ InitDupEdge

NextRun == Next \/ NextDupEdge

SpecRun == InitRun /\ [][NextRun]_vars

(***************************************************************************)
(* Properties of DuplicateDetector.analyze                                 *)
(***************************************************************************)
DupReturned == pc = "dup_done"

\* What a finding says of a pair: the first block by file, lines, kind and
\* snippet, the second by file and lines.
NamesPair(f, a, b) ==
    /\ f.file = a.filePath
    /\ f.line = a.startLine
    /\ f.endLine = a.endLine
    /\ f.message.nodeType = a.nodeType
    /\ f.codeSnippet = Slice(a.snippet, 200)
    /\ f.message.otherFile = b.filePath
    /\ f.message.otherStart = b.startLine
    /\ f.message.otherEnd = b.endLine

NamesUnordered(f, a, b) == NamesPair(f, a, b) \/ NamesPair(f, b, a)

FindingsNaming(a, b) ==
    {n \in DOMAIN dup.findings : NamesUnordered(dup.findings[n], a, b)}

BlockPairs == {p \in (DOMAIN dup.allBlocks) \X (DOMAIN dup.allBlocks) : p[1] < p[2]}

\* C6: in the output of analyze, every unordered pair of extracted blocks is
\* named by at most one finding, of either rule.
C6_PairNamedAtMostOnce ==
    \A p \in BlockPairs :
        Cardinality(FindingsNaming(dup.allBlocks[p[1]], dup.allBlocks[p[2]])) <= 1

\* analyze has returned; two blocks of one bucket, whose token similarity is
\* 1 and so at or above the threshold, are named by the clone finding only.
C6_Witness ==
    /\ DupReturned
    /\ \E p \in BlockPairs :
          LET a == dup.allBlocks[p[1]]
              b == dup.allBlocks[p[2]]
          IN /\ a.hash = b.hash
             /\ FracGeq(jaccardSimilarity(a.tokens, b.tokens), SimilarityOf(context))
             /\ \E n \in DOMAIN dup.findings :
                   /\ FindingsNaming(a, b) = {n}
                   /\ dup.findings[n].ruleId = STRUCTURAL_CLONE

StructuralDone == pc \in {"dup_similar", "dup_done"}

\* the structural-clone findings that name a pair of the given blocks
CloneFindingsOf(blocks) ==
    {n \in DOMAIN dup.findings :
        /\ dup.findings[n].ruleId = STRUCTURAL_CLONE
        /\ \E i, j \in DOMAIN blocks :
              i < j /\ NamesPair(dup.findings[n], blocks[i], blocks[j])}

\* C7: for every hash bucket of N blocks, analyze emits exactly N*(N-1)/2
\* structural-clone findings, one for each unordered pair of the bucket.
C7_EveryBucketPairReported ==
    StructuralDone =>
        \A k \in DOMAIN dup.hashMap :
            LET N == Len(dup.hashMap[k].blocks)
            IN Cardinality(CloneFindingsOf(dup.hashMap[k].blocks)) = (N * (N - 1)) \div 2

LineSpan(first, last) == last - first + 1

\* the block nodes of a parsed file that contain a changed line of the file
ChangedBlockNodes(file) ==
    {n \in Range(findNodes(file.tree, BLOCK_NODE_TYPES)) :
        \E i \in DOMAIN context.files :
            /\ context.files[i].path = file.path
            /\ \E k \in DOMAIN context.files[i].addedLines :
                  context.files[i].addedLines[k].lineNumber \in (n.start + 1)..(n.end + 1)}

\* C8: every extracted block spans at least 5 lines, and no finding names a
\* block of fewer than 5 lines.
C8_NoShortBlock ==
    /\ \A i \in DOMAIN dup.allBlocks :
          LineSpan(dup.allBlocks[i].startLine, dup.allBlocks[i].endLine) >= 5
    /\ \A n \in DOMAIN dup.findings :
          /\ LineSpan(dup.findings[n].line, dup.findings[n].endLine) >= 5
          /\ LineSpan(dup.findings[n].message.otherStart, dup.findings[n].message.otherEnd) >= 5

\* analyze has returned findings; a changed function of four lines has the
\* structure of an extracted block, and is named by none of them.
C8_Witness ==
    /\ DupReturned
    /\ dup.findings # <<>>
    /\ \E i \in DOMAIN context.parsedFiles :
          \E n \in ChangedBlockNodes(context.parsedFiles[i]) :
              /\ LineSpan(n.start, n.end) = 4
              /\ \E k \in DOMAIN dup.allBlocks : dup.allBlocks[k].hash = hashNode(n)

\* the file has an entry in context.files with an added line in first..last
HasChangedLine(path, first, last) ==
    \E i \in DOMAIN context.files :
        /\ context.files[i].path = path
        /\ \E k \in DOMAIN context.files[i].addedLines :
              context.files[i].addedLines[k].lineNumber \in first..last

\* C9: every extracted block, and both blocks named by any finding, contain a
\* changed line of their own file; a parsed file without an entry in
\* context.files gives no block.
C9_OnlyChangedBlocks ==
    /\ \A i \in DOMAIN dup.allBlocks :
          HasChangedLine(dup.allBlocks[i].filePath, dup.allBlocks[i].startLine,
                         dup.allBlocks[i].endLine)
    /\ \A n \in DOMAIN dup.findings :
          /\ HasChangedLine(dup.findings[n].file, dup.findings[n].line, dup.findings[n].endLine)
          /\ HasChangedLine(dup.findings[n].message.otherFile,
                            dup.findings[n].message.otherStart, dup.findings[n].message.otherEnd)
    /\ \A i \in DOMAIN context.parsedFiles :
          (\A k \in DOMAIN context.files : context.files[k].path # context.parsedFiles[i].path)
              => \A b \in DOMAIN dup.allBlocks :
                    dup.allBlocks[b].filePath # context.parsedFiles[i].path

\* analyze has returned findings; a parsed file without an entry in
\* context.files holds a block of six lines with the structure of an
\* extracted block, and another file holds an unchanged one beside changed ones.
C9_Witness ==
    /\ DupReturned
    /\ dup.findings # <<>>
    /\ \E i \in DOMAIN context.parsedFiles :
          LET file == context.parsedFiles[i]
          IN /\ \A k \in DOMAIN context.files : context.files[k].path # file.path
             /\ \E n \in Range(findNodes(file.tree, BLOCK_NODE_TYPES)) :
                   /\ LineSpan(n.start, n.end) >= 5
                   /\ \E b \in DOMAIN dup.allBlocks : dup.allBlocks[b].hash = hashNode(n)

(***************************************************************************)
(* Properties of runPipeline: the join and the counts                      *)
(***************************************************************************)
\* The race of analyzer i is decided: by the task (timer cleared) or by the
\* timer (fired).
Decided(i) ==
    /\ i \in DOMAIN results
    /\ results[i].status \in {"fulfilled", "rejected"}
    /\ timers[i].state \in {"cleared", "fired"}

\* C15: runPipeline has computed the summary only when every enabled
\* analyzer was launched and decided; while any is undecided it has not
\* returned.
C15_JoinAfterAllSettled ==
    pc = "done" =>
        /\ enabledAnalyzers = ExpectedEnabled
        /\ \A i \in DOMAIN enabledAnalyzers : Decided(i)
        /\ Len(summary.analyzerResults) = Len(enabledAnalyzers)

\* runPipeline has returned; the first analyzer had finished at once and
\* the second was decided by its timer 5000 ms later.
C15_Witness ==
    /\ pc = "done"
    /\ Len(enabledAnalyzers) = 2
    /\ timers[1].state = "cleared" /\ tasks[1].settledAt = 0
    /\ timers[2].state = "fired"
    /\ clock >= ANALYZER_TIMEOUT_MS

\* what runPipeline deduplicates: the findings of all results, in list order
FlattenedResults == FlatMap(summary.analyzerResults, 1)

\* C17: errors, warnings and infos count the findings of each severity in
\* the deduplicated list, and add up to totalFindings.
C17_SeverityCountsOfDeduplicated ==
    pc = "done" =>
        LET kept == deduplicateFindings(FlattenedResults)
        IN /\ summary.errors = Cardinality({i \in DOMAIN kept : kept[i].severity = "error"})
           /\ summary.warnings = Cardinality({i \in DOMAIN kept : kept[i].severity = "warning"})
           /\ summary.infos = Cardinality({i \in DOMAIN kept : kept[i].severity = "info"})
           /\ summary.errors + summary.warnings + summary.infos = summary.totalFindings

\* Deduplication dropped a warning: the raw lists hold more warnings than
\* the summary counts.
C17_Witness ==
    /\ pc = "done"
    /\ summary.totalFindings > 0
    /\ Cardinality({i \in DOMAIN FlattenedResults : FlattenedResults[i].severity = "warning"})
          > summary.warnings

(***************************************************************************)
(* Properties of the structural signature                                  *)
(***************************************************************************)
RECURSIVE Shape(_)
\* A tree without what a renaming changes: the rows, and the text and
\* content of identifier-like and literal-like nodes.
Shape(node) ==
    IF node.kind \in IDENTIFIER_NODE_TYPES \cup LITERAL_NODE_TYPES
    THEN [kind |-> node.kind, text |-> <<>>, children |-> <<>>]
    ELSE [kind |-> node.kind, text |-> node.text,
          children |-> [i \in DOMAIN node.children |-> Shape(node.children[i])]]

Shapes(nodes) == [i \in DOMAIN nodes |-> Shape(nodes[i])]

RemoveAt(s, j) == SubSeq(s, 1, j - 1) \o SubSeq(s, j + 1, Len(s))

\* b is a with one more statement in its body
ExtraStatement(a, b) ==
    /\ a.kind = b.kind
    /\ Len(a.children) = Len(b.children)
    /\ \E i \in DOMAIN a.children :
          /\ a.children[i].kind = K_statement_block
          /\ b.children[i].kind = K_statement_block
          /\ \A k \in DOMAIN a.children : k # i => Shape(a.children[k]) = Shape(b.children[k])
          /\ \E j \in DOMAIN b.children[i].children :
                Shapes(RemoveAt(b.children[i].children, j)) = Shapes(a.children[i].children)

\* C11: blocks that differ only in identifier names and literal values get
\* the same signature and the same bucket; a block with one more statement
\* gets a different signature.
C11_SignatureIgnoresNames ==
    (pc = "signature" /\ dup.state = "grouped") =>
        /\ Shape(dup.a) = Shape(dup.b) =>
              /\ hashNode(dup.a) = hashNode(dup.b)
              /\ Len(dup.hashMap) = 1
              /\ Len(dup.hashMap[1].blocks) = 2
        /\ (ExtraStatement(dup.a, dup.b) \/ ExtraStatement(dup.b, dup.a)) =>
              /\ hashNode(dup.a) # hashNode(dup.b)
              /\ Len(dup.hashMap) = 2

\* Two functions with different names and literals, on different lines,
\* have been put into one bucket.
C11_Witness ==
    /\ pc = "signature"
    /\ dup.state = "grouped"
    /\ NodeText(dup.a) # NodeText(dup.b)
    /\ dup.a.start # dup.b.start
    /\ Shape(dup.a) = Shape(dup.b)
    /\ Len(dup.hashMap) = 1

\* the block nodes of the parsed file at the given path
BlockNodesAt(path) ==
    UNION {IF context.parsedFiles[i].path = path
           THEN Range(findNodes(context.parsedFiles[i].tree, BLOCK_NODE_TYPES))
           ELSE {} : i \in DOMAIN context.parsedFiles}

\* the nodes a finding names first (by lines, kind and snippet) and second
\* (by lines)
FirstNodes(f) ==
    {n \in BlockNodesAt(f.file) :
        /\ n.start + 1 = f.line
        /\ n.end + 1 = f.endLine
        /\ n.kind = f.message.nodeType
        /\ Slice(NodeText(n), 200) = f.codeSnippet}

OtherNodes(f) ==
    {n \in BlockNodesAt(f.message.otherFile) :
        n.start + 1 = f.message.otherStart /\ n.end + 1 = f.message.otherEnd}

\* C12: a structural-clone finding is emitted for two blocks only if their
\* normalized strings are identical.
C12_ClonesHaveEqualNormalForm ==
    \A n \in DOMAIN dup.findings :
        dup.findings[n].ruleId = STRUCTURAL_CLONE =>
            \E a \in FirstNodes(dup.findings[n]), b \in OtherNodes(dup.findings[n]) :
                normalizeNode(a) = normalizeNode(b)

(***************************************************************************)
(* Properties of the similar-block phase and of the order of the output    *)
(***************************************************************************)
AnalyzeReturned == pc \in {"dup_done", "dup_summarized"}

FindingsOfRuleNaming(ruleId, a, b) ==
    {n \in FindingsNaming(a, b) : dup.findings[n].ruleId = ruleId}

\* C13: a pair of distinct extracted blocks has exactly one similar-block
\* finding if it was not reported as a structural clone and the Jaccard
\* similarity of its token sequences is at least the threshold, and none
\* otherwise.
C13_SimilarIffAboveThreshold ==
    AnalyzeReturned =>
        \A p \in BlockPairs :
            LET a == dup.allBlocks[p[1]]
                b == dup.allBlocks[p[2]]
                similar == FindingsOfRuleNaming(SIMILAR_BLOCK, a, b)
            IN IF /\ FindingsOfRuleNaming(STRUCTURAL_CLONE, a, b) = {}
                  /\ FracGeq(jaccardSimilarity(a.tokens, b.tokens), SimilarityOf(context))
               THEN Cardinality(similar) = 1
               ELSE similar = {}

Reverse(s) == [i \in DOMAIN s |-> s[Len(s) + 1 - i]]

\* the same files, listed the other way round
Reordered(ctx) ==
    [ctx EXCEPT !.files = Reverse(ctx.files), !.parsedFiles = Reverse(ctx.parsedFiles)]

\* which findings, with their primary file and line, in their order
Primary(findings) ==
    [n \in DOMAIN findings |-> <<findings[n].ruleId, findings[n].file, findings[n].line>>]

\* C14: the findings analyze returns, with their primary file and line and
\* in their order, are the same for every ordering of the same files.
C14_OutputIgnoresFileOrder ==
    AnalyzeReturned => Primary(analyze(Reordered(context))) = Primary(dup.findings)

(***************************************************************************)
(* Degenerate inputs                                                       *)
(***************************************************************************)
ZeroSummary ==
    /\ summary.totalFindings = 0
    /\ summary.errors = 0
    /\ summary.warnings = 0
    /\ summary.infos = 0

\* no block node of any parsed file has five lines and a changed line
NoBlockToExtract ==
    \A i \in DOMAIN context.parsedFiles :
        \A n \in ChangedBlockNodes(context.parsedFiles[i]) : LineSpan(n.start, n.end) < 5

WellFormedBlocks(file) ==
    {n \in ChangedBlockNodes(file) : LineSpan(n.start, n.end) >= 5 /\ ~BlockRaises(n)}

\* the finding is about the node a of file fa and the node b of file fb
About(f, fa, a, fb, b) ==
    /\ f.file = fa.path /\ f.line = a.start + 1
    /\ f.message.otherFile = fb.path /\ f.message.otherStart = b.start + 1

\* C18: a candidate whose processing raises is skipped: the detector's
\* result has no error, and every two well-formed clone blocks are reported.
C18_MalformedCandidateSkipped ==
    pc = "dup_summarized" =>
        /\ \A i \in DOMAIN summary.analyzerResults : ~HasError(summary.analyzerResults[i])
        /\ \A i, j \in DOMAIN context.parsedFiles :
              LET fa == context.parsedFiles[i]
                  fb == context.parsedFiles[j]
              IN \A a \in WellFormedBlocks(fa), b \in WellFormedBlocks(fb) :
                    (<<i, a>> # <<j, b>> /\ normalizeNode(a) = normalizeNode(b)) =>
                        \E n \in DOMAIN summary.analyzerResults[1].findings :
                            LET f == summary.analyzerResults[1].findings[n]
                            IN About(f, fa, a, fb, b) \/ About(f, fb, b, fa, a)

\* C19: every finding of the detector has the severity configured for it.
C19_FindingsHaveConfiguredSeverity ==
    \A n \in DOMAIN dup.findings :
        dup.findings[n].severity = context.config.analyzers.duplicates.severity

(***************************************************************************)
(* The context is read-only                                                *)
(***************************************************************************)
\* C20: no step of runPipeline or of the detector changes the context:
\* files, parsedFiles, changed lines and configuration stay as they were.
C20_ContextIsReadOnly == [][context' = context]_vars

\* A run of the detector over two files has ended in the summary, with
\* findings, and the context still lists both files and their changed lines.
C20_Witness ==
    /\ pc = "dup_summarized"
    /\ summary.totalFindings > 0
    /\ Len(context.parsedFiles) = 2
    /\ Len(context.files) = 2
    /\ \A i \in DOMAIN context.files : context.files[i].addedLines # <<>>

(***************************************************************************)
(* core/severity.ts: the exit code of a run, computed by scan and check    *)
(* from the summary runPipeline returned and config.severity.              *)
(***************************************************************************)

\* Largest number of findings of one severity in a summary.
MaxCount == 2

\* core/types.ts: enum ExitCode.
Success == 0
ErrorsFound == 1
WarningsExceeded == 2

SEVERITY_ORDER == [info |-> 0, warning |-> 1, error |-> 2]

severityAtLeast(a, threshold) == SEVERITY_ORDER[a] >= SEVERITY_ORDER[threshold]

\* The same function with the warnings budget tested before failOn.
getExitCodeWarningsFirst(s, config) ==
    IF s.warnings > config.maxWarnings THEN WarningsExceeded
    ELSE IF config.failOn = "error" /\ s.errors > 0 THEN ErrorsFound
    ELSE IF config.failOn = "warning" /\ (s.errors > 0 \/ s.warnings > 0) THEN ErrorsFound
    ELSE IF config.failOn = "info" /\ s.totalFindings > 0 THEN ErrorsFound
    ELSE Success

getExitCode(s, config) ==
    IF config.failOn = "error" /\ s.errors > 0 THEN ErrorsFound
    ELSE IF config.failOn = "warning" /\ (s.errors > 0 \/ s.warnings > 0) THEN ErrorsFound
    ELSE IF config.failOn = "info" /\ s.totalFindings > 0 THEN ErrorsFound
    ELSE IF s.warnings > config.maxWarnings THEN WarningsExceeded
    ELSE Success

\* The summaries runPipeline builds: totalFindings is the length of the
\* list whose severities errors, warnings and infos count.
ExitSummaries ==
    {[totalFiles |-> 1, totalFindings |-> e + w + i, errors |-> e, warnings |-> w,
      infos |-> i, analyzerResults |-> <<>>] :
        e \in 0..MaxCount, w \in 0..MaxCount, i \in 0..MaxCount}

\* config.severity: failOn is z.nativeEnum(Severity), maxWarnings z.number()
\* with default 20.
SeverityConfigs ==
    {[failOn |-> f, maxWarnings |-> m] : f \in Severities, m \in {-1, 0, 1, 20}}

\* const exitCode = getExitCode(summary, config.severity)
ExitCall ==
    /\ pc = "exit"
    /\ exit.state = "called"
    /\ exit' = [exit EXCEPT !.state = "returned",
                            !.result = getExitCode(exit.summary, exit.config)]
    /\ UNCHANGED <<cache, context, analyzers, pc, enabledAnalyzers, tasks, timers, results,
                   clock, summary, dup, jac>>

InitExit ==
    /\ exit \in {[summary |-> s, config |-> c, state |-> "called", result |-> Success] :
                  s \in ExitSummaries, c \in SeverityConfigs}
    /\ pc = "exit"
    /\ context = EmptyContext
    /\ analyzers = <<>>
    /\ enabledAnalyzers = <<>>
    /\ tasks = <<>>
    /\ timers = <<>>
    /\ results = <<>>
    /\ clock = 0
    /\ summary = None
    /\ dup = None
    /\ jac = None
    /\ cache = None

NextExit == ExitCall

SpecExit == InitExit /\ [][NextExit]_vars

\* Number of findings of the summary whose severity is at or above the
\* threshold.
CountAtLeast(s, threshold) ==
    (IF severityAtLeast("error", threshold) THEN s.errors ELSE 0)
    + (IF severityAtLeast("warning", threshold) THEN s.warnings ELSE 0)
    + (IF severityAtLeast("info", threshold) THEN s.infos ELSE 0)

ExitReturned == pc = "exit" /\ exit.state = "returned"

\* C21: getExitCode returns ErrorsFound exactly when the summary holds a
\* finding of severity at or above failOn; otherwise WarningsExceeded
\* exactly when warnings > maxWarnings; otherwise Success.
C21_ExitCodePrecedence ==
    ExitReturned =>
        LET failing == CountAtLeast(exit.summary, exit.config.failOn) > 0
            exceeded == exit.summary.warnings > exit.config.maxWarnings
        IN  /\ (exit.result = ErrorsFound) <=> failing
            /\ ~failing => ((exit.result = WarningsExceeded) <=> exceeded)
            /\ (~failing /\ ~exceeded) => exit.result = Success

\* A summary with an error and more warnings than the budget, failOn = error.
C21_Witness ==
    /\ ExitReturned
    /\ exit.config.failOn = "error"
    /\ exit.summary.errors > 0
    /\ exit.summary.warnings > exit.config.maxWarnings
    /\ exit.result = ErrorsFound

(***************************************************************************)
(* llm/cache.ts: the LRU cache of LLM suggestions.  entries is the Map in  *)
(* insertion order, accessCounter the module-level counter (it starts at 0 *)
(* in every process), file what .archguard/llm-cache.json holds.           *)
(* The field process of an entry and the field last of the cache record    *)
(* history: the process that assigned the entry's lastAccess, and the      *)
(* operation that ran last with the entries it found.                      *)
(***************************************************************************)

\* Capacity of the cache.  cache.ts:5 sets it to 200; get, set and evictLru
\* use it only in the test size >= MAX_ENTRIES, and the model scales it.
MAX_ENTRIES == 2

\* The processes that use the cache file one after the other: the one that
\* fills and saves the cache, and a later one.
Processes == {1, 2}

\* Largest value of accessCounter in one process.
MaxAccess == 2

\* The keys key-1 .. key-(MAX_ENTRIES + 1) and the cached suggestions.
CacheKeys == 1..(MAX_ENTRIES + 1)

\* The suggestions: a key is first cached with FirstValue, as the LLM's
\* suggestion for it, and a set on a present key writes either value.
FirstValue == "value-1"

CacheValues == {FirstValue, "value-2"}

CacheHas(entries, key) == \E i \in DOMAIN entries : entries[i].key = key

CacheIndex(entries, key) == CHOOSE i \in DOMAIN entries : entries[i].key = key

\* The first entry, in Map order, of those with the smallest lastAccess.
OldestIndex(entries) ==
    CHOOSE i \in DOMAIN entries :
        \A j \in DOMAIN entries :
            \/ entries[i].lastAccess < entries[j].lastAccess
            \/ entries[i].lastAccess = entries[j].lastAccess /\ i <= j

evictLru(entries) ==
    IF entries = <<>> THEN entries
    ELSE LET i == OldestIndex(entries)
         IN  [j \in 1..(Len(entries) - 1) |-> IF j < i THEN entries[j] ELSE entries[j + 1]]

\* set without the eviction.
CacheSetUnbounded(c, key, value) ==
    IF CacheHas(c.entries, key)
    THEN [c EXCEPT !.entries[CacheIndex(c.entries, key)].value = value,
                   !.entries[CacheIndex(c.entries, key)].lastAccess = c.accessCounter + 1,
                   !.entries[CacheIndex(c.entries, key)].process = c.process,
                   !.accessCounter = c.accessCounter + 1]
    ELSE [c EXCEPT !.entries = Append(c.entries,
                                      [key |-> key, value |-> value,
                                       lastAccess |-> c.accessCounter + 1,
                                       process |-> c.process]),
                   !.accessCounter = c.accessCounter + 1]

CacheSet(c, key, value) ==
    IF CacheHas(c.entries, key)
    THEN [c EXCEPT !.entries[CacheIndex(c.entries, key)].value = value,
                   !.entries[CacheIndex(c.entries, key)].lastAccess = c.accessCounter + 1,
                   !.entries[CacheIndex(c.entries, key)].process = c.process,
                   !.accessCounter = c.accessCounter + 1]
    ELSE LET kept == IF Len(c.entries) >= MAX_ENTRIES THEN evictLru(c.entries)
                     ELSE c.entries
         IN  [c EXCEPT !.entries = Append(kept,
                                          [key |-> key, value |-> value,
                                           lastAccess |-> c.accessCounter + 1,
                                           process |-> c.process]),
                       !.accessCounter = c.accessCounter + 1]

CacheGet(c, key) ==
    IF CacheHas(c.entries, key)
    THEN [c EXCEPT !.entries[CacheIndex(c.entries, key)].lastAccess = c.accessCounter + 1,
                   !.entries[CacheIndex(c.entries, key)].process = c.process,
                   !.accessCounter = c.accessCounter + 1]
    ELSE c

\* The entries JSON.parse gives back: key and value are strings and
\* lastAccess a number in every file saveToDisk wrote.
CacheLoad(c) ==
    IF c.file.kind = "array"
    THEN [c EXCEPT !.entries = [i \in DOMAIN c.file.data |->
                                   [key |-> c.file.data[i].key,
                                    value |-> c.file.data[i].value,
                                    lastAccess |-> c.file.data[i].lastAccess,
                                    process |-> c.file.data[i].process]]]
    ELSE c

CacheSave(c) == [c EXCEPT !.file = [kind |-> "array", data |-> c.entries]]

Did(c, op, key, value) ==
    [c EXCEPT !.last = [op |-> op, key |-> key, value |-> value, before |-> cache.entries]]

OthersUnchangedByCache ==
    UNCHANGED <<exit, context, analyzers, pc, enabledAnalyzers, tasks, timers, results,
                clock, summary, dup, jac>>

Get ==
    /\ pc = "cache"
    /\ cache.accessCounter < MaxAccess
    /\ \E key \in CacheKeys : cache' = Did(CacheGet(cache, key), "get", key, FirstValue)
    /\ OthersUnchangedByCache

Set ==
    /\ pc = "cache"
    /\ cache.accessCounter < MaxAccess
    /\ \E key \in CacheKeys, value \in CacheValues :
            /\ CacheHas(cache.entries, key) \/ value = FirstValue
            /\ cache' = Did(CacheSet(cache, key, value), "set", key, value)
    /\ OthersUnchangedByCache

LoadFromDisk ==
    /\ pc = "cache"
    /\ cache' = Did(CacheLoad(cache), "loadFromDisk", 0, FirstValue)
    /\ OthersUnchangedByCache

SaveToDisk ==
    /\ pc = "cache"
    /\ cache' = Did(CacheSave(cache), "saveToDisk", 0, FirstValue)
    /\ OthersUnchangedByCache

\* The process ends and a later one starts: the module is evaluated again
\* (accessCounter = 0) and enhanceWithLlmSuggestions makes a new LlmCache.
NewProcess ==
    /\ pc = "cache"
    /\ cache.process + 1 \in Processes
    /\ cache' = Did([cache EXCEPT !.entries = <<>>, !.accessCounter = 0,
                                  !.process = cache.process + 1], "new", 0, FirstValue)
    /\ OthersUnchangedByCache

InitCache ==
    /\ cache = [entries |-> <<>>, accessCounter |-> 0, process |-> 1,
                file |-> [kind |-> "absent", data |-> <<>>],
                last |-> [op |-> "new", key |-> 0, value |-> FirstValue, before |-> <<>>]]
    /\ pc = "cache"
    /\ context = EmptyContext
    /\ analyzers = <<>>
    /\ enabledAnalyzers = <<>>
    /\ tasks = <<>>
    /\ timers = <<>>
    /\ results = <<>>
    /\ clock = 0
    /\ summary = None
    /\ dup = None
    /\ jac = None
    /\ exit = None

NextCache == Get \/ Set \/ LoadFromDisk \/ SaveToDisk \/ NewProcess

SpecCache == InitCache /\ [][NextCache]_vars

CacheKeysOf(entries) == {entries[i].key : i \in DOMAIN entries}

\* a was read or written before b was: in an earlier process, or earlier in
\* the same process.
UsedBefore(a, b) ==
    \/ a.process < b.process
    \/ a.process = b.process /\ a.lastAccess < b.lastAccess

\* The last operation was a set of a new key into a full cache.
SetIntoFullCache ==
    /\ pc = "cache"
    /\ cache.last.op = "set"
    /\ ~CacheHas(cache.last.before, cache.last.key)
    /\ Len(cache.last.before) >= MAX_ENTRIES

\* C22: a set of a new key into a full cache removes exactly one entry, the
\* one whose most recent get or set is the oldest, also when the entries were
\* restored by loadFromDisk in a later process.
C22_EvictsLeastRecentlyUsed ==
    SetIntoFullCache =>
        \E i \in DOMAIN cache.last.before :
            /\ CacheKeysOf(cache.entries)
                 = (CacheKeysOf(cache.last.before) \ {cache.last.before[i].key})
                   \cup {cache.last.key}
            /\ \A j \in DOMAIN cache.last.before :
                    j # i => UsedBefore(cache.last.before[i], cache.last.before[j])

\* The last operation was a set of a key that was present.
SetOfPresentKey ==
    /\ pc = "cache"
    /\ cache.last.op = "set"
    /\ CacheHas(cache.last.before, cache.last.key)

C23_PipelineReturns == <>(pc = "done")

\* The analyzer's own work was done less than the timeout after its launch.
OwnWorkWithinTimeout(i) ==
    /\ tasks[i].readyAt # -1
    /\ tasks[i].readyAt - tasks[i].launched < ANALYZER_TIMEOUT_MS

TimedOut(i) ==
    results[i] = [status |-> "rejected", reason |-> "Error: timed out after 5000ms"]

\* C24: an analyzer whose own work completes within 5000 ms of its launch is
\* never reported as timed out, whatever its siblings do.
C24_TimeoutsAreIndependent ==
    pc = "done" =>
        \A i \in DOMAIN tasks : OwnWorkWithinTimeout(i) => ~TimedOut(i)

\* C25: two blocks with the same structural signature have token sequences
\* of Jaccard similarity 1.
C25_SameSignatureSameTokens ==
    (pc = "signature" /\ dup.state = "grouped") =>
        \A k \in DOMAIN dup.hashMap :
            \A i, j \in DOMAIN dup.hashMap[k].blocks :
                FracEq(jaccardSimilarity(dup.hashMap[k].blocks[i].tokens,
                                         dup.hashMap[k].blocks[j].tokens),
                       Frac(1, 1))

(***************************************************************************)
(* runPipeline on lists of the five built-in analyzers and a plugin, under *)
(* every setting of the enabled flags, with analyzers that return at once. *)
(***************************************************************************)
BuiltInNames == {"security", "ai-smells", "conventions", "duplicates", "architecture"}

AllAnalyzerNames == BuiltInNames \cup {"plugin"}

EnabledFlags == [BuiltInNames -> BOOLEAN]

ContextWithFlags(flags) ==
    [files |-> <<>>, parsedFiles |-> <<>>,
     config |-> [analyzers |->
        [security |-> [enabled |-> flags["security"]],
         aiSmells |-> [enabled |-> flags["ai-smells"]],
         conventions |-> [enabled |-> flags["conventions"]],
         duplicates |-> [enabled |-> flags["duplicates"]],
         architecture |-> [enabled |-> flags["architecture"]]]]]

InitEnabled ==
    /\ \E flags \in EnabledFlags : context = ContextWithFlags(flags)
    /\ analyzers \in SeqsUpTo(AllAnalyzerNames, MaxAnalyzers)
    /\ pc = "start"
    /\ enabledAnalyzers = <<>>
    /\ tasks = <<>>
    /\ timers = <<>>
    /\ results = <<>>
    /\ clock = 0
    /\ exit = None
    /\ cache = None
    /\ summary = None
    /\ dup = None
    /\ jac = None

NextEnabled == Start \/ LaunchReturning \/ Await \/ RaceSettle \/ Join

SpecEnabled == InitEnabled /\ [][NextEnabled]_vars

\* The configuration entry of a built-in analyzer.
ConfigEntry(name) ==
    CASE name = "security" -> context.config.analyzers.security
      [] name = "ai-smells" -> context.config.analyzers.aiSmells
      [] name = "conventions" -> context.config.analyzers.conventions
      [] name = "duplicates" -> context.config.analyzers.duplicates
      [] name = "architecture" -> context.config.analyzers.architecture

\* The analyzers of the list that are not built-in analyzers switched off.
AnalyzersToRun ==
    SelectSeq(analyzers, LAMBDA a : a \in BuiltInNames => ConfigEntry(a).enabled)

\* C26: a task is launched for an analyzer exactly if it is enabled: the
\* launched tasks and the entries of analyzerResults are those of the
\* analyzers to run, in list order.
C26_LaunchedIffEnabled ==
    /\ pc # "start" => enabledAnalyzers = AnalyzersToRun
    /\ Len(tasks) <= Len(AnalyzersToRun)
    /\ pc \in {"await", "done"} => Len(tasks) = Len(AnalyzersToRun)
    /\ pc = "done" =>
          [i \in DOMAIN summary.analyzerResults |-> summary.analyzerResults[i].analyzer]
            = AnalyzersToRun

\* A run that is over, of a list with a disabled built-in analyzer and an
\* analyzer that ran.
C26_Witness ==
    /\ pc = "done"
    /\ Len(AnalyzersToRun) < Len(analyzers)
    /\ Len(summary.analyzerResults) > 0
    /\ ~context.config.analyzers.aiSmells.enabled

\* C27: a recorded result never changes, the summary never changes once
\* runPipeline has returned, and the timer of a settled race is not armed,
\* whatever happens later on the losing side.
C27_OutcomeIsFinal ==
    [][/\ \A i \in DOMAIN results :
            results[i].status # "pending" => results'[i] = results[i]
       /\ pc = "done" => (pc' = "done" /\ summary' = summary)
       /\ \A i \in DOMAIN results' :
            results'[i].status # "pending" => timers'[i].state # "armed"]_vars

\* runPipeline has returned, and an analyzer that had timed out has
\* completed since.
C27_Witness ==
    /\ pc = "done"
    /\ \E i \in DOMAIN tasks :
          /\ timers[i].state = "fired"
          /\ tasks[i].state = "fulfilled"
          /\ tasks[i].value # <<>>
          /\ TimedOut(i)
          /\ summary.analyzerResults[i].findings = <<>>

\* C28: every finding the detector emits is counted by the pipeline: the
\* summary's totalFindings and warnings are the number of findings analyze
\* returned.
C28_EveryDuplicateFindingCounted ==
    pc = "dup_summarized" =>
        /\ summary.totalFindings = Len(dup.findings)
        /\ summary.warnings = Len(dup.findings)

(***************************************************************************)
(* Symmetry and order-insensitivity of jaccardSimilarity.                  *)
(***************************************************************************)
\* The sequences holding the same tokens as s, the same number of times each.
Reorderings(s) ==
    {t \in SeqsUpTo(Tokens, Len(s)) :
        /\ Len(t) = Len(s)
        /\ \A x \in Tokens : Occurrences(t, x) = Occurrences(s, x)}

\* C29: jaccardSimilarity(a, b) equals jaccardSimilarity(b, a), lies in
\* [0, 1], and is the same for every reordering of a and every reordering of
\* b, so which block of a pair is compared first does not change the result.
C29_JaccardIsSymmetric ==
    (pc = "jaccard" /\ jac.state = "returned") =>
        /\ FracEq(jac.result, jaccardSimilarity(jac.b, jac.a))
        /\ jac.result.den > 0
        /\ 0 <= jac.result.num
        /\ jac.result.num <= jac.result.den
        /\ \A a2 \in Reorderings(jac.a) : FracEq(jaccardSimilarity(a2, jac.b), jac.result)
        /\ \A b2 \in Reorderings(jac.b) : FracEq(jaccardSimilarity(jac.a, b2), jac.result)

\* A returned call on two sequences of different lengths, in different
\* orders, that share some tokens but not all.
C29_Witness ==
    /\ pc = "jaccard"
    /\ jac.state = "returned"
    /\ jac.a = <<"a", "b">>
    /\ jac.b = <<"b", "a", "c">>
    /\ jac.result = Frac(2, 3)

====
